---- MODULE Spec2Model ----
(***************************************************************************)
(* Streaming decoder for a gzipped JSON array of objects                   *)
(* (iter_systems_with_coords_gz), the consuming loop of                    *)
(* build_gravity_sources.main with its --limit_systems cap, and the        *)
(* multi-key join of join_star_type_to_coords (load_primary_maps + probe). *)
(*                                                                         *)
(* The character stream is a sequence of one-character strings.  The       *)
(* decoder reads it one character per step, exactly as f.read(1) does.     *)
(***************************************************************************)
EXTENDS Integers, Sequences, FiniteSets, TLC

\* ------------------------------------------------------------------------
\* Characters
\* ------------------------------------------------------------------------
LB == "["
RB == "]"
LC == "{"
RC == "}"
QT == "\""
BS == "\\"
CM == ","
CL == ":"
SP == " "
\* f.read(1) returns the empty string at end of input
EOF == ""

Alphabet == {LB, RB, LC, RC, QT, BS, CM, CL, SP}

\* ------------------------------------------------------------------------
\* Bounds
\* ------------------------------------------------------------------------
\* longest stream whose characters are chosen freely, one per read
MaxLen == 6
\* largest --limit_systems value tried
MaxLimit == 2
\* rows of the primary-star CSV
MaxRows == 2
\* records of the systems dump probed against the tables
MaxProbes == 2
MaxLate == 2
MaxInterest == 1
MaxRecs == 2

\* ------------------------------------------------------------------------
\* Fixed documents (every prefix of each is also used as a stream)
\* ------------------------------------------------------------------------
\* [{},{"":{}},{}]      three objects, the second holds a nested object
DocNested == <<LB, LC, RC, CM, LC, QT, QT, CL, LC, RC, RC, CM, LC, RC, RB>>
\* [{"}{":"]\""},{}]    braces, bracket and an escaped quote inside strings
DocBraceStr == <<LB, LC, QT, RC, LC, QT, CL, QT, RB, BS, QT, QT, RC, CM, LC, RC, RB>>
\*  [ {"\\":[{},""]} ,{}]   whitespace, an array holding an object, \\ before a quote
DocArray == <<SP, LB, SP, LC, QT, BS, BS, QT, CL, LB, LC, RC, CM, QT, QT, RB, RC, SP, CM, LC, RC, RB>>
\* [{"":","},{"":""}] }   a comma inside a string, text after the closing bracket
DocTail == <<LB, LC, QT, QT, CL, QT, CM, QT, RC, CM, LC, QT, QT, CL, QT, QT, RC, RB, SP, RC>>
\* [ , ]               no object before the closing bracket
DocEmpty == <<LB, SP, CM, SP, RB>>
\* [{}{:},{}]          second object is not valid JSON
DocBadObj == <<LB, LC, RC, LC, CL, RC, CM, LC, RC, RB>>

Corpus == {DocNested, DocBraceStr, DocArray, DocTail, DocEmpty, DocBadObj}

Prefixes(s) == {SubSeq(s, 1, n) : n \in 0..Len(s)}

CorpusPrefixes == UNION {Prefixes(d) : d \in Corpus}

\* ------------------------------------------------------------------------
\* json.loads on one object buffer, and the reference whole-document parse.
\* Positions are 1-based.  A parse returns the position after the value,
\* 0 for a syntax error, -1 when the text ends inside the value.
\* ------------------------------------------------------------------------
RECURSIVE SkipWs(_, _)
SkipWs(s, i) ==
    IF i <= Len(s) /\ s[i] = SP THEN SkipWs(s, i + 1) ELSE i

\* s[i] is the first character after the opening quote
RECURSIVE ParseStringBody(_, _)
ParseStringBody(s, i) ==
    IF i > Len(s) THEN -1
    ELSE IF s[i] = QT THEN i + 1
    ELSE IF s[i] = BS THEN
        IF i + 1 > Len(s) THEN -1
        ELSE IF s[i + 1] \in {QT, BS} THEN ParseStringBody(s, i + 2)
        ELSE 0
    ELSE ParseStringBody(s, i + 1)

RECURSIVE ParseValue(_, _)
RECURSIVE ParseMembers(_, _)
RECURSIVE ParseElements(_, _)

\* s[i] = "{"
ParseObject(s, i) ==
    LET j == SkipWs(s, i + 1) IN
    IF j > Len(s) THEN -1
    ELSE IF s[j] = RC THEN j + 1
    ELSE ParseMembers(s, j)

\* s[i] = "["
ParseArray(s, i) ==
    LET j == SkipWs(s, i + 1) IN
    IF j > Len(s) THEN -1
    ELSE IF s[j] = RB THEN j + 1
    ELSE ParseElements(s, j)

ParseValue(s, i) ==
    LET j == SkipWs(s, i) IN
    IF j > Len(s) THEN -1
    ELSE IF s[j] = QT THEN ParseStringBody(s, j + 1)
    ELSE IF s[j] = LC THEN ParseObject(s, j)
    ELSE IF s[j] = LB THEN ParseArray(s, j)
    ELSE 0

\* j is the position of a member's key (whitespace already skipped)
ParseMembers(s, j) ==
    IF j > Len(s) THEN -1
    ELSE IF s[j] # QT THEN 0
    ELSE LET k == ParseStringBody(s, j + 1) IN
         IF k <= 0 THEN k
         ELSE LET k2 == SkipWs(s, k) IN
              IF k2 > Len(s) THEN -1
              ELSE IF s[k2] # CL THEN 0
              ELSE LET v == ParseValue(s, k2 + 1) IN
                   IF v <= 0 THEN v
                   ELSE LET v2 == SkipWs(s, v) IN
                        IF v2 > Len(s) THEN -1
                        ELSE IF s[v2] = RC THEN v2 + 1
                        ELSE IF s[v2] = CM THEN ParseMembers(s, SkipWs(s, v2 + 1))
                        ELSE 0

\* j is the position of an array element (whitespace already skipped)
ParseElements(s, j) ==
    LET v == ParseValue(s, j) IN
    IF v <= 0 THEN v
    ELSE LET v2 == SkipWs(s, v) IN
         IF v2 > Len(s) THEN -1
         ELSE IF s[v2] = RB THEN v2 + 1
         ELSE IF s[v2] = CM THEN ParseElements(s, SkipWs(s, v2 + 1))
         ELSE 0

\* the buffer is one complete JSON object and nothing else
ValidObject(b) == Len(b) > 0 /\ b[1] = LC /\ ParseObject(b, 1) = Len(b) + 1

\* The value json.loads returns, represented by the text of the object with
\* the whitespace between tokens removed (whitespace inside strings kept).
RECURSIVE Canon(_, _, _, _)
Canon(b, i, inS, e) ==
    IF i > Len(b) THEN <<>>
    ELSE LET c == b[i] IN
         IF inS THEN
            <<c>> \o Canon(b, i + 1, e \/ c # QT, (~e) /\ c = BS)
         ELSE IF c = SP THEN Canon(b, i + 1, FALSE, FALSE)
         ELSE <<c>> \o Canon(b, i + 1, c = QT, FALSE)

json_loads(b) == Canon(b, 1, FALSE, FALSE)

\* ------------------------------------------------------------------------
\* Reference whole-document parse: json.loads of the complete text, kept as
\* a status and the spans <<first, last>> of the top-level elements.
\*   "ok"            one array of objects, nothing but whitespace after it
\*   "trunc_in"      text ends inside a top-level object
\*   "trunc_between" text ends after "[" or between two elements
\*   "bad"           anything else
\* ------------------------------------------------------------------------
RECURSIVE RefElems(_, _, _)
RefElems(s, j, acc) ==
    IF j > Len(s) THEN [status |-> "trunc_between", spans |-> acc]
    ELSE IF s[j] # LC THEN [status |-> "bad", spans |-> acc]
    ELSE LET e == ParseObject(s, j) IN
         IF e = -1 THEN [status |-> "trunc_in", spans |-> acc]
         ELSE IF e = 0 THEN [status |-> "bad", spans |-> acc]
         ELSE LET acc2 == Append(acc, <<j, e - 1>>)
                  k == SkipWs(s, e)
              IN IF k > Len(s) THEN [status |-> "trunc_between", spans |-> acc2]
                 ELSE IF s[k] = RB THEN
                      [status |-> IF SkipWs(s, k + 1) > Len(s) THEN "ok" ELSE "bad",
                       spans |-> acc2]
                 ELSE IF s[k] = CM THEN RefElems(s, SkipWs(s, k + 1), acc2)
                 ELSE [status |-> "bad", spans |-> acc2]

RefParse(s) ==
    LET i == SkipWs(s, 1) IN
    IF i > Len(s) \/ s[i] # LB THEN [status |-> "bad", spans |-> <<>>]
    ELSE LET j == SkipWs(s, i + 1) IN
         IF j > Len(s) THEN [status |-> "trunc_between", spans |-> <<>>]
         ELSE IF s[j] = RB THEN
              [status |-> IF SkipWs(s, j + 1) > Len(s) THEN "ok" ELSE "bad",
               spans |-> <<>>]
         ELSE RefElems(s, j, <<>>)

\* the values of the reference parse, element by element
RefValues(s) ==
    LET r == RefParse(s) IN
    [k \in 1..Len(r.spans) |-> json_loads(SubSeq(s, r.spans[k][1], r.spans[k][2]))]

\* ------------------------------------------------------------------------
\* The decoder as a step function.  A decoder state is a record
\*   pc      "start" | "seek_first" | "in_obj" | "yielded" | "seek_next"
\*           | "done" | "error"
\*   err     "" | "format" | "no_brace" | "eof_mid" | "json"
\*   buf, depth, in_str, esc    the generator's locals
\*   out     the values yielded so far, each with the span of its text
\* c is the character returned by f.read(1), EOF at end of input; n is the
\* number of characters read so far, c included.
\* ------------------------------------------------------------------------
\* the buffer of the previous object is not dropped
NewObject_KeepBuf(st) ==
    [st EXCEPT !.pc = "in_obj", !.buf = Append(st.buf, LC), !.depth = 1,
               !.in_str = FALSE, !.esc = FALSE]

NewObject(st) ==
    [st EXCEPT !.pc = "in_obj", !.buf = <<LC>>, !.depth = 1,
               !.in_str = FALSE, !.esc = FALSE]

Raise(st, e) == [st EXCEPT !.pc = "error", !.err = e]

\* the first token is not checked
StartStep_NoCheck(st, c) ==
    IF c = SP THEN st
    ELSE IF c = EOF THEN Raise(st, "format")
    ELSE [st EXCEPT !.pc = "seek_first"]

\* end of input is skipped like whitespace
StartStep_EofSkipped(st, c) ==
    IF c = SP \/ c = EOF THEN st
    ELSE IF c # LB THEN Raise(st, "format")
    ELSE [st EXCEPT !.pc = "seek_first"]

\* skip whitespace, require "["
StartStep(st, c) ==
    IF c = SP THEN st
    ELSE IF c # LB THEN Raise(st, "format")
    ELSE [st EXCEPT !.pc = "seek_first"]

\* "]" before any object is not accepted
SeekFirstStep_NoEmpty(st, c) ==
    IF c # EOF /\ c \notin {LC, RB} THEN st
    ELSE IF c # LC THEN Raise(st, "no_brace")
    ELSE NewObject(st)

\* end of input after "[" is taken for an empty array
SeekFirstStep_EofEmpty(st, c) ==
    IF c # EOF /\ c \notin {LC, RB} THEN st
    ELSE IF c = RB \/ c = EOF THEN [st EXCEPT !.pc = "done"]
    ELSE NewObject(st)

\* scan to the first "{" or "]"
SeekFirstStep(st, c) ==
    IF c # EOF /\ c \notin {LC, RB} THEN st
    ELSE IF c = RB THEN [st EXCEPT !.pc = "done"]
    ELSE IF c # LC THEN Raise(st, "no_brace")
    ELSE NewObject(st)

\* "{" does not open a nested level
Track_NoNest(st, c) ==
    IF st.in_str THEN
        IF st.esc THEN [st EXCEPT !.esc = FALSE]
        ELSE IF c = BS THEN [st EXCEPT !.esc = TRUE]
        ELSE IF c = QT THEN [st EXCEPT !.in_str = FALSE]
        ELSE st
    ELSE
        IF c = QT THEN [st EXCEPT !.in_str = TRUE]
        ELSE IF c = RC THEN [st EXCEPT !.depth = st.depth - 1]
        ELSE st

\* braces are counted inside strings too
Track_NoStr(st, c) ==
    LET t == IF st.in_str THEN
                 IF st.esc THEN [st EXCEPT !.esc = FALSE]
                 ELSE IF c = BS THEN [st EXCEPT !.esc = TRUE]
                 ELSE IF c = QT THEN [st EXCEPT !.in_str = FALSE]
                 ELSE st
             ELSE IF c = QT THEN [st EXCEPT !.in_str = TRUE] ELSE st
    IN IF c = LC THEN [t EXCEPT !.depth = st.depth + 1]
       ELSE IF c = RC THEN [t EXCEPT !.depth = st.depth - 1]
       ELSE t

\* a quote always ends the string, escaped or not
Track_NoEsc(st, c) ==
    IF st.in_str THEN
        IF c = QT THEN [st EXCEPT !.in_str = FALSE, !.esc = FALSE]
        ELSE IF st.esc THEN [st EXCEPT !.esc = FALSE]
        ELSE IF c = BS THEN [st EXCEPT !.esc = TRUE]
        ELSE st
    ELSE
        IF c = QT THEN [st EXCEPT !.in_str = TRUE]
        ELSE IF c = LC THEN [st EXCEPT !.depth = st.depth + 1]
        ELSE IF c = RC THEN [st EXCEPT !.depth = st.depth - 1]
        ELSE st

\* a backslash outside a string sets the escape flag too
Track_EscOutside(st, c) ==
    IF st.in_str THEN
        IF st.esc THEN [st EXCEPT !.esc = FALSE]
        ELSE IF c = BS THEN [st EXCEPT !.esc = TRUE]
        ELSE IF c = QT THEN [st EXCEPT !.in_str = FALSE]
        ELSE st
    ELSE
        IF c = BS THEN [st EXCEPT !.esc = TRUE]
        ELSE IF c = QT THEN [st EXCEPT !.in_str = TRUE]
        ELSE IF c = LC THEN [st EXCEPT !.depth = st.depth + 1]
        ELSE IF c = RC THEN [st EXCEPT !.depth = st.depth - 1]
        ELSE st

\* the three flags after one character of an object
Track(st, c) ==
    IF st.in_str THEN
        IF st.esc THEN [st EXCEPT !.esc = FALSE]
        ELSE IF c = BS THEN [st EXCEPT !.esc = TRUE]
        ELSE IF c = QT THEN [st EXCEPT !.in_str = FALSE]
        ELSE st
    ELSE
        IF c = QT THEN [st EXCEPT !.in_str = TRUE]
        ELSE IF c = LC THEN [st EXCEPT !.depth = st.depth + 1]
        ELSE IF c = RC THEN [st EXCEPT !.depth = st.depth - 1]
        ELSE st

\* the object is complete: decode it and hand it to the caller
Complete(st, n) ==
    IF ValidObject(st.buf)
    THEN [st EXCEPT !.pc = "yielded",
                    !.out = Append(st.out, [val |-> json_loads(st.buf),
                                            from |-> n - Len(st.buf) + 1,
                                            to |-> n])]
    ELSE Raise(st, "json")

\* whitespace between tokens is left out of the buffer
ObjStep_SkipSpace(st, c, n) ==
    IF c = EOF THEN Raise(st, "eof_mid")
    ELSE LET b == IF c = SP /\ ~st.in_str THEN st.buf ELSE Append(st.buf, c)
             t == Track([st EXCEPT !.buf = b], c)
         IN IF (~st.in_str) /\ c = RC /\ t.depth = 0 THEN Complete(t, n) ELSE t

\* end of input inside an object ends the sequence silently
ObjStep_EofReturns(st, c, n) ==
    IF c = EOF THEN [st EXCEPT !.pc = "done"]
    ELSE LET t == Track([st EXCEPT !.buf = Append(st.buf, c)], c) IN
         IF (~st.in_str) /\ c = RC /\ t.depth = 0 THEN Complete(t, n) ELSE t

\* one character of the object being accumulated
ObjStep(st, c, n) ==
    IF c = EOF THEN Raise(st, "eof_mid")
    ELSE LET t == Track([st EXCEPT !.buf = Append(st.buf, c)], c) IN
         IF (~st.in_str) /\ c = RC /\ t.depth = 0 THEN Complete(t, n) ELSE t

\* end of input between objects is an error, as it is before the first one
SeekNextStep_EofRaises(st, c) ==
    LET s0 == [st EXCEPT !.buf = <<>>, !.pc = "seek_next"] IN
    IF c # EOF /\ c \notin {LC, RB} THEN s0
    ELSE IF c = RB THEN [s0 EXCEPT !.pc = "done"]
    ELSE IF c = EOF THEN Raise(s0, "no_brace")
    ELSE NewObject(s0)

\* the buffer is not dropped after a yield
SeekNextStep_KeepBuf(st, c) ==
    LET s0 == [st EXCEPT !.pc = "seek_next"] IN
    IF c # EOF /\ c \notin {LC, RB} THEN s0
    ELSE IF c = EOF \/ c = RB THEN [s0 EXCEPT !.pc = "done"]
    ELSE NewObject_KeepBuf(s0)

\* only commas and whitespace are accepted between objects
SeekNextStep_Strict(st, c) ==
    LET s0 == [st EXCEPT !.buf = <<>>, !.pc = "seek_next"] IN
    IF c = CM \/ c = SP THEN s0
    ELSE IF c = EOF \/ c = RB THEN [s0 EXCEPT !.pc = "done"]
    ELSE IF c = LC THEN NewObject(s0)
    ELSE Raise(s0, "format")

\* after a yield: drop the buffer, scan to the next "{" or the closing "]"
SeekNextStep(st, c) ==
    LET s0 == [st EXCEPT !.buf = <<>>, !.pc = "seek_next"] IN
    IF c # EOF /\ c \notin {LC, RB} THEN s0
    ELSE IF c = EOF \/ c = RB THEN [s0 EXCEPT !.pc = "done"]
    ELSE NewObject(s0)

Step(st, c, n) ==
    CASE st.pc = "start" -> StartStep(st, c)
      [] st.pc = "seek_first" -> SeekFirstStep(st, c)
      [] st.pc = "in_obj" -> ObjStep(st, c, n)
      [] st.pc \in {"yielded", "seek_next"} -> SeekNextStep(st, c)
      [] OTHER -> st

DecInit ==
    [pc |-> "start", err |-> "", buf |-> <<>>, depth |-> 0,
     in_str |-> FALSE, esc |-> FALSE, out |-> <<>>]

Terminated(st) == st.pc \in {"done", "error"}

\* the decoder driven to its end over the complete text s, starting from
\* state st with n characters read
RECURSIVE RunFrom(_, _, _)
RunFrom(st, s, n) ==
    IF Terminated(st) THEN st
    ELSE IF n >= Len(s) THEN Step(st, EOF, n)
    ELSE RunFrom(Step(st, s[n + 1], n + 1), s, n + 1)

\* the decoder's state after the first n characters of s
RECURSIVE StateAfter(_, _)
StateAfter(s, n) ==
    IF n = 0 THEN DecInit
    ELSE LET p == StateAfter(s, n - 1) IN
         IF Terminated(p) THEN p ELSE Step(p, s[n], n)

Decode(s) == RunFrom(DecInit, s, 0)

\* ------------------------------------------------------------------------
\* Field values and their coercions (safe_int, norm_name)
\* A raw field value is [t, s]: t is "none" for None, "int" for a JSON
\* number, "str" for text; s is the text str() gives, a sequence of
\* one-character strings.  Optional[int] is <<>> for None, <<n>> for n.
\* ------------------------------------------------------------------------
NoneVal == [t |-> "none", s |-> <<"N", "o", "n", "e">>]
IntVal(ds) == [t |-> "int", s |-> ds]
StrVal(cs) == [t |-> "str", s |-> cs]

DigitChars == <<"0", "1", "2", "3", "4", "5", "6", "7", "8", "9">>
IsDigit(c) == \E k \in 1..10 : DigitChars[k] = c
DigitOf(c) == (CHOOSE k \in 1..10 : DigitChars[k] = c) - 1

\* str.strip()
RECURSIVE LStrip(_)
LStrip(cs) == IF cs # <<>> /\ Head(cs) = SP THEN LStrip(Tail(cs)) ELSE cs
RECURSIVE RStrip(_)
RStrip(cs) ==
    IF cs # <<>> /\ cs[Len(cs)] = SP THEN RStrip(SubSeq(cs, 1, Len(cs) - 1)) ELSE cs
Strip(cs) == RStrip(LStrip(cs))

AllDigits(cs) == cs # <<>> /\ \A k \in 1..Len(cs) : IsDigit(cs[k])

RECURSIVE DecimalValue(_)
DecimalValue(cs) ==
    IF cs = <<>> THEN 0
    ELSE 10 * DecimalValue(SubSeq(cs, 1, Len(cs) - 1)) + DigitOf(cs[Len(cs)])

\* digits with exactly one "." among them: what float() accepts here
IsDecimalPoint(cs) ==
    /\ Cardinality({k \in 1..Len(cs) : cs[k] = "."}) = 1
    /\ \A k \in 1..Len(cs) : cs[k] = "." \/ IsDigit(cs[k])
    /\ \E k \in 1..Len(cs) : IsDigit(cs[k])

\* int(float(s)): the digits before the point
TruncValue(cs) ==
    LET p == CHOOSE k \in 1..Len(cs) : cs[k] = "." IN DecimalValue(SubSeq(cs, 1, p - 1))

safe_int(x) ==
    IF x.t = "none" THEN <<>>
    ELSE LET s == Strip(x.s) IN
         IF s = <<>> THEN <<>>
         ELSE IF AllDigits(s) THEN <<DecimalValue(s)>>
         ELSE IF IsDecimalPoint(s) THEN <<TruncValue(s)>>
         ELSE <<>>

norm_name(x) == IF x.t = "none" THEN <<>> ELSE Strip(x.s)

\* field values of the primary-star CSV (csv.DictReader gives text)
CsvIds == {StrVal(<<>>), StrVal(<<SP, "3", ".", "7">>)}
CsvId64s == {StrVal(<<>>), StrVal(<<"5">>)}
CsvNames == {StrVal(<<>>), StrVal(<<"b", SP>>)}

\* field values of a decoded record of the systems dump
SysIds == {NoneVal, IntVal(<<"1">>), IntVal(<<"3">>)}
SysId64s == {NoneVal, IntVal(<<"5">>)}
SysNames == {NoneVal, StrVal(<<SP, "b">>)}

SysRecs == [id : SysIds, id64 : SysId64s, name : SysNames]

NoRec == [id |-> NoneVal, id64 |-> NoneVal, name |-> NoneVal]

\* as_int of build_gravity_sources and of extract_primary_star_and_grav is
\* safe_int under another name
as_int(x) == safe_int(x)

\* text that float() accepts, after strip(): digits, or digits around one "."
IsFloatText(cs) == AllDigits(cs) \/ IsDecimalPoint(cs)

\* a float is kept in tenths; the texts drawn carry at most one decimal place
FloatTenths(cs) ==
    IF AllDigits(cs) THEN 10 * DecimalValue(cs)
    ELSE LET p == CHOOSE k \in 1..Len(cs) : cs[k] = "."
             frac == SubSeq(cs, p + 1, Len(cs))
         IN 10 * DecimalValue(SubSeq(cs, 1, p - 1))
              + (IF frac = <<>> THEN 0 ELSE DigitOf(frac[1]))

\* float(x): the value, or the exception it raises
py_float(x) ==
    IF x.t = "none" THEN [exc |-> "TypeError", v |-> 0]
    ELSE LET s == Strip(x.s) IN
         IF IsFloatText(s) THEN [exc |-> "", v |-> FloatTenths(s)]
         ELSE [exc |-> "ValueError", v |-> 0]

\* build_gravity_sources.as_float: Optional[float]
as_float(x) ==
    IF x.t = "none" THEN <<>>
    ELSE LET s == Strip(x.s) IN
         IF s = <<>> THEN <<>>
         ELSE IF py_float(StrVal(s)).exc = "" THEN <<py_float(StrVal(s)).v>>
         ELSE <<>>

\* x or "" for a name field
OrEmpty(x) == IF x.t = "none" THEN <<>> ELSE x.s

\* the coords of a decoded system: x, y, z as raw values; a key that is
\* absent, and a coords object that is absent or empty, read as None
CoordXs == {NoneVal, IntVal(<<"1">>), StrVal(<<"x">>)}
CoordYs == {NoneVal, StrVal(<<"2", ".", "5">>)}
Coords == [x : CoordXs, y : CoordYs, z : {IntVal(<<"0">>)}]
NoCoords == [x |-> NoneVal, y |-> NoneVal, z |-> NoneVal]

\* ------------------------------------------------------------------------
\* extract_primary_star_and_grav: keys, subtypes, the choice of a primary
\* Words that are only compared whole ("Star", "Black Hole") are texts of
\* one element.
\* ------------------------------------------------------------------------
BoolVal(b) == [t |-> "bool", s |-> IF b THEN <<"True">> ELSE <<"False">>]

\* extract_primary_star_and_grav.as_float: float(x), None on any exception
as_float_any(x) == IF py_float(x).exc = "" THEN <<py_float(x).v>> ELSE <<>>

norm(x) == IF x.t = "none" THEN <<>> ELSE Strip(x.s)

\* the name is tried before the numeric identifiers
system_key_NameFirst(rec) ==
    IF norm(rec.systemName) # <<>> THEN <<"name", norm(rec.systemName)>>
    ELSE IF as_int(rec.systemId) # <<>> THEN <<"id", as_int(rec.systemId)[1]>>
    ELSE IF as_int(rec.systemId64) # <<>> THEN <<"id64", as_int(rec.systemId64)[1]>>
    ELSE <<"none", <<>>>>

\* the key of a body's system: ("id" | "id64" | "name" | "none", value)
system_key(rec) ==
    IF as_int(rec.systemId) # <<>> THEN <<"id", as_int(rec.systemId)[1]>>
    ELSE IF as_int(rec.systemId64) # <<>> THEN <<"id64", as_int(rec.systemId64)[1]>>
    ELSE IF norm(rec.systemName) # <<>> THEN <<"name", norm(rec.systemName)>>
    ELSE <<"none", <<>>>>

is_interesting_grav(st) ==
    /\ st # <<>>
    /\ \/ st = <<"Black Hole">>
       \/ st = <<"Neutron Star">>
       \/ Head(st) = "White Dwarf"

\* stands for 1e30: above every distance drawn, in tenths
NoDistance == 1000000000

\* an equal distance replaces the candidate kept
choose_primary_LastTie(existing, rec) ==
    LET is_main == rec.isMainStar.t # "none" /\ rec.isMainStar = BoolVal(TRUE)
        d == IF as_float_any(rec.distanceToArrival) = <<>> THEN NoDistance
             ELSE as_float_any(rec.distanceToArrival)[1]
        out == [rec |-> rec, _is_main |-> is_main, _d |-> d]
    IN IF existing = <<>> THEN out
       ELSE IF is_main /\ ~existing[1]._is_main THEN out
       ELSE IF is_main = existing[1]._is_main /\ d <= existing[1]._d THEN out
       ELSE existing[1]

\* existing is <<>> for None, <<out>> for a candidate kept earlier
choose_primary(existing, rec) ==
    LET is_main == rec.isMainStar.t # "none" /\ rec.isMainStar = BoolVal(TRUE)
        d == IF as_float_any(rec.distanceToArrival) = <<>> THEN NoDistance
             ELSE as_float_any(rec.distanceToArrival)[1]
        out == [rec |-> rec, _is_main |-> is_main, _d |-> d]
    IN IF existing = <<>> THEN out
       ELSE IF is_main /\ ~existing[1]._is_main THEN out
       ELSE IF is_main = existing[1]._is_main /\ d < existing[1]._d THEN out
       ELSE existing[1]

\* records of the bodies dump: every combination of the three identifiers
\* with a few bodies
PrimIds == {NoneVal, IntVal(<<"1">>), StrVal(<<"x">>)}
PrimId64s == {NoneVal, IntVal(<<"5">>)}
PrimNames == {NoneVal, StrVal(<<SP>>), StrVal(<<"a", SP>>)}
Bodies ==
    {[type |-> StrVal(<<"Planet">>), subType |-> NoneVal,
      isMainStar |-> NoneVal, distanceToArrival |-> IntVal(<<"5">>)],
     [type |-> StrVal(<<"Star">>), subType |-> StrVal(<<"Black Hole">>),
      isMainStar |-> BoolVal(TRUE), distanceToArrival |-> IntVal(<<"0">>)],
     [type |-> StrVal(<<"Star">>), subType |-> NoneVal,
      isMainStar |-> BoolVal(FALSE), distanceToArrival |-> IntVal(<<"5">>)],
     [type |-> StrVal(<<"Star">>), subType |-> StrVal(<<"K">>),
      isMainStar |-> NoneVal, distanceToArrival |-> NoneVal]}
PrimRecs ==
    {[type |-> b.type, subType |-> b.subType, isMainStar |-> b.isMainStar,
      distanceToArrival |-> b.distanceToArrival,
      systemId |-> i, systemId64 |-> i64, systemName |-> n] :
        b \in Bodies, i \in PrimIds, i64 \in PrimId64s, n \in PrimNames}
\* star records of one system (systemId 1): every main flag with every
\* kind of distance; 5 and "5.0" are the same distance in two records
StarFlags == {NoneVal, BoolVal(TRUE), BoolVal(FALSE)}
StarDistances ==
    {NoneVal, IntVal(<<"0">>), IntVal(<<"5">>), StrVal(<<"5", ".", "0">>),
     StrVal(<<"x">>)}
StarRecs ==
    {[type |-> StrVal(<<"Star">>), subType |-> StrVal(<<"K">>),
      isMainStar |-> f, distanceToArrival |-> d,
      systemId |-> IntVal(<<"1">>), systemId64 |-> NoneVal, systemName |-> NoneVal] :
        f \in StarFlags, d \in StarDistances}
NoPrimRec ==
    [type |-> NoneVal, subType |-> NoneVal, isMainStar |-> NoneVal,
     distanceToArrival |-> NoneVal,
     systemId |-> NoneVal, systemId64 |-> NoneVal, systemName |-> NoneVal]

\* ------------------------------------------------------------------------
\* build_omphalos_systems (scripts/ and scripts2/): the two normalizers
\* A result is [exc, row]: exc names the exception that escapes ("" when
\* none does), row is <<>> for a rejection (None, {}) and <<r>> for a row.
\* Distances are compared by their squares, in hundredths.
\* ------------------------------------------------------------------------
MAX_RADIUS_LY == 2000

ALWAYS_KEEP_SYSTEMS == {<<"Sol">>, <<"Polaris">>, <<"Maia">>}

Dist2(x, y, z) == x * x + y * y + z * z

Rejected == [exc |-> "", row |-> <<>>]

\* scripts/build_omphalos_systems.normalize_row
normalize_row(system) ==
    LET name == Strip(OrEmpty(system.name))
        x == py_float(system.coords.x)
        y == py_float(system.coords.y)
        z == py_float(system.coords.z)
    IN IF name = <<>> THEN Rejected
       ELSE IF x.exc # "" \/ y.exc # "" \/ z.exc # "" THEN Rejected
       ELSE [exc |-> "",
             row |-> <<[name |-> name, x |-> x.v, y |-> y.v, z |-> z.v,
                        dist2 |-> Dist2(x.v, y.v, z.v)]>>]

\* the float() calls sit in a try that turns a failure into a rejection
normalize_system_row_Guarded(system, interesting_names) ==
    LET name == Strip(OrEmpty(system.name))
        x == py_float(system.coords.x)
        y == py_float(system.coords.y)
        z == py_float(system.coords.z)
        keep == \/ name \in interesting_names
                \/ name \in ALWAYS_KEEP_SYSTEMS
                \/ Dist2(x.v, y.v, z.v) <= (10 * MAX_RADIUS_LY) * (10 * MAX_RADIUS_LY)
    IN IF x.exc # "" \/ y.exc # "" \/ z.exc # "" THEN Rejected
       ELSE IF ~keep THEN Rejected
       ELSE [exc |-> "",
             row |-> <<[name |-> name, x |-> x.v, y |-> y.v, z |-> z.v,
                        dist2 |-> Dist2(x.v, y.v, z.v)]>>]

\* scripts2/build_omphalos_systems.normalize_system_row
normalize_system_row(system, interesting_names) ==
    LET name == Strip(OrEmpty(system.name))
        x == py_float(system.coords.x)
        y == py_float(system.coords.y)
        z == py_float(system.coords.z)
        keep == \/ name \in interesting_names
                \/ name \in ALWAYS_KEEP_SYSTEMS
                \/ Dist2(x.v, y.v, z.v) <= (10 * MAX_RADIUS_LY) * (10 * MAX_RADIUS_LY)
    IN IF system.coords.x.t = "none" \/ system.coords.y.t = "none"
          \/ system.coords.z.t = "none"
       THEN Rejected
       ELSE IF x.exc # "" THEN [exc |-> x.exc, row |-> <<>>]
       ELSE IF y.exc # "" THEN [exc |-> y.exc, row |-> <<>>]
       ELSE IF z.exc # "" THEN [exc |-> z.exc, row |-> <<>>]
       ELSE IF ~keep THEN Rejected
       ELSE [exc |-> "",
             row |-> <<[name |-> name, x |-> x.v, y |-> y.v, z |-> z.v,
                        dist2 |-> Dist2(x.v, y.v, z.v)]>>]

\* systems of the dump as the omphalos builders read them
OmphSystems ==
    [name : {NoneVal, StrVal(<<"b", SP>>), StrVal(<<"Sol">>)},
     coords : [x : {NoneVal, IntVal(<<"1">>), StrVal(<<"x">>), IntVal(<<"2", "5", "0", "0">>)},
               y : {NoneVal, StrVal(<<"2", ".", "5">>)},
               z : {IntVal(<<"0">>)}]]
NoSystem == [name |-> NoneVal, coords |-> NoCoords]

\* rows of the interest CSV and records of the systems dump, as read by
\* build_gravity_sources
GravCsvRows == [systemId : CsvIds, systemId64 : {StrVal(<<>>)}, systemName : CsvNames]
GravRecs == [id : SysIds, id64 : SysId64s,
             name : {NoneVal, StrVal(<<"b">>)}, coords : Coords]
NoGravRec == [id |-> NoneVal, id64 |-> NoneVal, name |-> NoneVal, coords |-> NoCoords]

\* a key already present keeps its value
Put_KeepFirst(d, k, v) ==
    [x \in DOMAIN d \cup {k} |-> IF x \in DOMAIN d THEN d[x] ELSE v]

\* dict[k] = v
Put(d, k, v) == [x \in DOMAIN d \cup {k} |-> IF x = k THEN v ELSE d[x]]

EmptyDict == [x \in {} |-> {}]

\* ------------------------------------------------------------------------
\* State
\* ------------------------------------------------------------------------
VARIABLES
    file,           \* the decompressed text, as far as it is determined
    open,           \* TRUE while the text after `file' is still undetermined
    pos,            \* number of characters read from the stream
    pc, err,        \* the generator's position and the error it raised
    buf, depth, in_str, esc,    \* the generator's locals
    yielded,        \* values handed to the caller, with the span of their text
    cpc,            \* the consuming loop: "pull" | "body" | "end" | "abort" | "break"
    limit_systems,  \* args.limit_systems
    scanned,        \* main's counter
    processed,      \* values for which the loop body ran past the cap check
    late_pulls,     \* next() calls made on the generator after it finished
    jpc,            \* join_star_type_to_coords.main: "load" | "probe" | "done"
    rows,           \* load_primary_maps: rows read
    csv_rows,       \* the rows csv.DictReader has handed out, in file order
    by_id, by_id64, by_name,    \* the three lookup tables
    only_matched,   \* args.only_matched
    probes,         \* records of the systems dump taken from the decoder
    sysrec, prow,   \* the record being joined and the row found (<<>> is None)
    row_out,        \* the row last handed to the CSV writer
    matched, via_id, via_id64, via_name, written,   \* main's counters
    \* build_gravity_sources.main
    grav_pc,        \* "load" | "scan" | "break" | "done"
    grav_csv,       \* the rows of the interest CSV read so far
    interest_rows, need_system_ids,
    grav_limit,     \* args.limit_systems
    grav_sysrec,    \* sysrec, the record taken from the decoder
    grav_scanned, grav_matched,     \* scanned, matched
    grav_processed, \* records for which the loop body ran past the cap check
    coords_by_system_id,
    \* extract_primary_star_and_grav.main
    prim_pc,        \* "scan" | "break" | "done"
    limit,          \* args.limit
    prim_rec,       \* rec, the record taken from the decoder
    prim_scanned, stars_seen,   \* scanned, stars_seen
    primary_by_system, subtype_counts,
    prim_interest,  \* interest_rows
    \* build_omphalos_systems
    script,         \* which of the two builders runs: "scripts" | "scripts2"
    omph_pc,        \* "scan" | "done" | "abort"
    omph_err,       \* the exception that ended the run
    interesting_names,
    system, omph_row,   \* the system taken from the dump; row, the normalizer's result
    total, kept,    \* scripts/: total, kept
    idx, total_kept, \* scripts2/: idx, total_kept
    \* extract_primary_star_and_grav: the entry of one system key
    fold_seen,      \* the star records of that key, in the order decoded
    fold_best,      \* primary_by_system.get(k): <<>> is None
    \* harvest.import_journals_to_witchspace
    jr_pc,          \* "next": at the loop over the files | "read" | "done"
    journal_files,  \* how many Journal*.log files the directory holds
    journal_no,     \* the file being scanned, 0 before the first
    journal_events, \* the events read from that file so far
    last_system,    \* <<>> is None
    last_pos,       \* <<>> is None
    jumps,          \* the tuples yielded for that file
    journal_dry_run, appended,
    witch_log,      \* how many events append_jump_event wrote
    \* harvest.fill_missing_coords_from_edsm, once per run of it
    systems_csv,    \* the rows of SYSTEMS_CSV on disk
    hv_pc,          \* per run: "off" | "idle" | "loop" | "write" | "done"
    hv_dry_run,     \* per run: dry_run
    hv_systems,     \* per run: systems
    hv_i,           \* per run: the index of the system the loop is at
    hv_updated,     \* per run: updated
    hv_looked_up,   \* per run: the indices of the systems asked of EDSM
    hv_set,         \* per run: the indices of the systems whose coordinates it set
    hv_result       \* per run: the count returned, <<>> before the return

decVars == <<pc, err, buf, depth, in_str, esc, yielded>>
streamVars == <<file, open, pos>>
loopVars == <<cpc, limit_systems, scanned, processed, late_pulls>>
tableVars == <<by_id, by_id64, by_name>>
countVars == <<matched, via_id, via_id64, via_name, written>>
joinVars == <<jpc, rows, csv_rows, by_id, by_id64, by_name, only_matched, probes,
              sysrec, prow, row_out, matched, via_id, via_id64, via_name, written>>
gravVars == <<grav_pc, grav_csv, interest_rows, need_system_ids, grav_limit,
              grav_sysrec, grav_scanned, grav_matched, grav_processed,
              coords_by_system_id>>
primVars == <<prim_pc, limit, prim_rec, prim_scanned, stars_seen, primary_by_system,
              subtype_counts, prim_interest>>
omphVars == <<script, omph_pc, omph_err, interesting_names, system, omph_row,
              total, kept, idx, total_kept>>
scriptVars == <<joinVars, gravVars, primVars, omphVars>>
foldVars == <<fold_seen, fold_best>>
journalVars == <<jr_pc, journal_files, journal_no, journal_events, last_system,
                 last_pos, jumps, journal_dry_run, appended, witch_log>>
harvestVars == <<systems_csv, hv_pc, hv_dry_run, hv_systems, hv_i, hv_updated,
                 hv_looked_up, hv_set, hv_result>>
toolVars == <<foldVars, journalVars, harvestVars>>
batchVars == <<scriptVars, toolVars>>
vars == <<file, open, pos, pc, err, buf, depth, in_str, esc, yielded,
          cpc, limit_systems, scanned, processed, late_pulls,
          jpc, rows, csv_rows, by_id, by_id64, by_name, only_matched, probes,
          sysrec, prow, row_out, matched, via_id, via_id64, via_name, written,
          gravVars, primVars, omphVars, toolVars>>

\* the generator's state as one record
Dec ==
    [pc |-> pc, err |-> err, buf |-> buf, depth |-> depth,
     in_str |-> in_str, esc |-> esc, out |-> yielded]

SetDec(n) ==
    /\ pc' = n.pc
    /\ err' = n.err
    /\ buf' = n.buf
    /\ depth' = n.depth
    /\ in_str' = n.in_str
    /\ esc' = n.esc
    /\ yielded' = n.out

\* f.read(1): the next character of the text, or EOF at its end.  While the
\* text is still open its next character is any of the alphabet.
Read(c) ==
    IF pos < Len(file)
    THEN /\ c = file[pos + 1]
         /\ pos' = pos + 1
         /\ UNCHANGED <<file, open>>
    ELSE \/ /\ c = EOF
            /\ open' = FALSE
            /\ UNCHANGED <<file, pos>>
         \/ /\ open
            /\ Len(file) < MaxLen
            /\ c \in Alphabet
            /\ file' = Append(file, c)
            /\ pos' = pos + 1
            /\ UNCHANGED open

\* where control goes when the generator stops running: to the loop body on
\* a yield, past the loop on return, out of main on an exception
Control(n) ==
    /\ cpc' = CASE n.pc = "yielded" -> "body"
                [] n.pc = "done" -> "end"
                [] n.pc = "error" -> "abort"
                [] OTHER -> "pull"
    /\ UNCHANGED <<limit_systems, scanned, processed, late_pulls>>

\* the generator takes the step n and control moves accordingly
Resume(n) == SetDec(n) /\ Control(n)

\* number of characters read once c has been read
After(c) == IF c = EOF THEN pos ELSE pos + 1

\* one iteration of the loop that skips leading whitespace, and the check
\* for "[" that ends it
ReadStart ==
    /\ cpc = "pull"
    /\ pc = "start"
    /\ \E c \in Alphabet \cup {EOF} : Read(c) /\ Resume(StartStep(Dec, c))
    /\ UNCHANGED batchVars

\* one iteration of the scan to the first "{" or "]"
ReadSeekFirst ==
    /\ cpc = "pull"
    /\ pc = "seek_first"
    /\ \E c \in Alphabet \cup {EOF} : Read(c) /\ Resume(SeekFirstStep(Dec, c))
    /\ UNCHANGED batchVars

\* one iteration of the while True loop, up to the yield
ReadObj ==
    /\ cpc = "pull"
    /\ pc = "in_obj"
    /\ \E c \in Alphabet \cup {EOF} : Read(c) /\ Resume(ObjStep(Dec, c, After(c)))
    /\ UNCHANGED batchVars

\* resumed after a yield: one iteration of the scan to the next "{" or "]"
ReadSeekNext ==
    /\ cpc = "pull"
    /\ pc \in {"yielded", "seek_next"}
    /\ \E c \in Alphabet \cup {EOF} : Read(c) /\ Resume(SeekNextStep(Dec, c))
    /\ UNCHANGED batchVars

\* the head of main's loop body: count the element, stop at the cap
LoopBody ==
    /\ cpc = "body"
    /\ scanned' = scanned + 1
    /\ IF limit_systems # 0 /\ scanned' > limit_systems
       THEN /\ cpc' = "break"
            /\ UNCHANGED processed
       ELSE /\ cpc' = "pull"
            /\ processed' = Append(processed, yielded[Len(yielded)].val)
    /\ UNCHANGED <<limit_systems, late_pulls, streamVars, decVars, batchVars>>

\* a finished generator starts over from the top of the text
PullAfterEnd_Restarts ==
    /\ Terminated(Dec)
    /\ late_pulls < MaxLate
    /\ late_pulls' = late_pulls + 1
    /\ pos' = 0
    /\ SetDec([DecInit EXCEPT !.out = yielded])
    /\ cpc' = "pull"
    /\ UNCHANGED <<file, open, limit_systems, scanned, processed, batchVars>>

\* next() on the generator after it has returned or raised: the function
\* body is over, nothing runs and nothing is read
PullAfterEnd ==
    /\ Terminated(Dec)
    /\ late_pulls < MaxLate
    /\ late_pulls' = late_pulls + 1
    /\ UNCHANGED <<cpc, limit_systems, scanned, processed>>
    /\ UNCHANGED <<streamVars, decVars, batchVars>>

\* ------------------------------------------------------------------------
\* join_star_type_to_coords: load_primary_maps, then one probe per record
\* ------------------------------------------------------------------------
\* a row is entered under its first identifier only
LoadRow_FirstKeyOnly ==
    /\ jpc = "load"
    /\ rows < MaxRows
    /\ \E i \in CsvIds, i64 \in CsvId64s, n \in CsvNames :
          LET row == [systemId |-> i, systemId64 |-> i64, systemName |-> n,
                      primaryStarName |-> StrVal(<<"s">>),
                      primaryStarSubType |-> StrVal(<<"K", SP>>),
                      line |-> rows + 1]
              sid == safe_int(row.systemId)
              sid64 == safe_int(row.systemId64)
              nm == norm_name(row.systemName)
          IN /\ rows' = rows + 1
             /\ csv_rows' = Append(csv_rows, row)
             /\ by_id' = IF sid # <<>> THEN Put(by_id, sid[1], row) ELSE by_id
             /\ by_id64' = IF sid = <<>> /\ sid64 # <<>>
                           THEN Put(by_id64, sid64[1], row) ELSE by_id64
             /\ by_name' = IF sid = <<>> /\ sid64 = <<>> /\ nm # <<>>
                           THEN Put(by_name, nm, row) ELSE by_name
    /\ UNCHANGED <<jpc, only_matched, probes, sysrec, prow, row_out, countVars>>
    /\ UNCHANGED <<streamVars, decVars, loopVars, gravVars, primVars, omphVars, toolVars>>

\* load_primary_maps, one CSV row
LoadRow ==
    /\ jpc = "load"
    /\ rows < MaxRows
    /\ \E i \in CsvIds, i64 \in CsvId64s, n \in CsvNames :
          LET row == [systemId |-> i, systemId64 |-> i64, systemName |-> n,
                      primaryStarName |-> StrVal(<<"s">>),
                      primaryStarSubType |-> StrVal(<<"K", SP>>),
                      line |-> rows + 1]
              sid == safe_int(row.systemId)
              sid64 == safe_int(row.systemId64)
              nm == norm_name(row.systemName)
          IN /\ rows' = rows + 1
             /\ csv_rows' = Append(csv_rows, row)
             /\ by_id' = IF sid # <<>> THEN Put(by_id, sid[1], row) ELSE by_id
             /\ by_id64' = IF sid64 # <<>> THEN Put(by_id64, sid64[1], row) ELSE by_id64
             /\ by_name' = IF nm # <<>> THEN Put(by_name, nm, row) ELSE by_name
    /\ UNCHANGED <<jpc, only_matched, probes, sysrec, prow, row_out, countVars>>
    /\ UNCHANGED <<streamVars, decVars, loopVars, gravVars, primVars, omphVars, toolVars>>

\* load_primary_maps returns; main opens the output and starts the pass
LoadDone ==
    /\ jpc = "load"
    /\ jpc' = "probe"
    /\ UNCHANGED <<rows, csv_rows, tableVars, only_matched, probes, sysrec, prow, row_out, countVars>>
    /\ UNCHANGED <<streamVars, decVars, loopVars, gravVars, primVars, omphVars, toolVars>>

\* first_nonempty with one key
first_nonempty(row, v) == IF v.t = "none" THEN <<>> ELSE Strip(v.s)

\* row_out for the record rec and the row found (<<>> when none); date and
\* coordinates are copied from the record and left out here
RowOut(rec, found) ==
    LET sub == IF found = <<>> THEN <<>>
               ELSE first_nonempty(found[1], found[1].primaryStarSubType)
    IN [name |-> rec.name, id |-> safe_int(rec.id), id64 |-> safe_int(rec.id64),
        primary_type |-> IF sub # <<>> THEN <<"Star">> ELSE <<>>,
        primary_subType |-> sub,
        primary_star_name |-> IF found = <<>> THEN <<>>
                              ELSE first_nonempty(found[1], found[1].primaryStarName)]

NoRowOut ==
    [name |-> NoneVal, id |-> <<>>, id64 |-> <<>>, primary_type |-> <<>>,
     primary_subType |-> <<>>, primary_star_name |-> <<>>]

\* by_name is tried before by_id and by_id64
Lookup_NameFirst(rec, t_id, t_id64, t_name) ==
    LET sid == safe_int(rec.id)
        sid64 == safe_int(rec.id64)
        nm == norm_name(rec.name)
    IN IF nm # <<>> /\ nm \in DOMAIN t_name
       THEN [row |-> <<t_name[nm]>>, via |-> "name"]
       ELSE IF sid # <<>> /\ sid[1] \in DOMAIN t_id
       THEN [row |-> <<t_id[sid[1]]>>, via |-> "id"]
       ELSE IF sid64 # <<>> /\ sid64[1] \in DOMAIN t_id64
       THEN [row |-> <<t_id64[sid64[1]]>>, via |-> "id64"]
       ELSE [row |-> <<>>, via |-> ""]

\* the row the probe finds and the counter it bumps: "" when none
Lookup(rec, t_id, t_id64, t_name) ==
    LET sid == safe_int(rec.id)
        sid64 == safe_int(rec.id64)
        nm == norm_name(rec.name)
    IN IF sid # <<>> /\ sid[1] \in DOMAIN t_id
       THEN [row |-> <<t_id[sid[1]]>>, via |-> "id"]
       ELSE IF sid64 # <<>> /\ sid64[1] \in DOMAIN t_id64
       THEN [row |-> <<t_id64[sid64[1]]>>, via |-> "id64"]
       ELSE IF nm # <<>> /\ nm \in DOMAIN t_name
       THEN [row |-> <<t_name[nm]>>, via |-> "name"]
       ELSE [row |-> <<>>, via |-> ""]

\* the probe enters the row it found under the record's name
Probe_Inserts ==
    /\ jpc = "probe"
    /\ probes < MaxProbes
    /\ \E rec \in SysRecs :
          LET r == Lookup(rec, by_id, by_id64, by_name)
              skip == r.row = <<>> /\ only_matched
              nm == norm_name(rec.name)
          IN /\ sysrec' = rec
             /\ prow' = r.row
             /\ via_id' = via_id + (IF r.via = "id" THEN 1 ELSE 0)
             /\ via_id64' = via_id64 + (IF r.via = "id64" THEN 1 ELSE 0)
             /\ via_name' = via_name + (IF r.via = "name" THEN 1 ELSE 0)
             /\ matched' = matched + (IF r.row # <<>> THEN 1 ELSE 0)
             /\ written' = written + (IF skip THEN 0 ELSE 1)
             /\ row_out' = IF skip THEN row_out ELSE RowOut(rec, r.row)
             /\ by_name' = IF r.row # <<>> /\ nm # <<>>
                           THEN Put(by_name, nm, r.row[1]) ELSE by_name
    /\ probes' = probes + 1
    /\ UNCHANGED <<jpc, rows, csv_rows, by_id, by_id64, only_matched>>
    /\ UNCHANGED <<streamVars, decVars, loopVars, gravVars, primVars, omphVars, toolVars>>

\* a record left out of the output is counted as written
Probe_CountsSkipped ==
    /\ jpc = "probe"
    /\ probes < MaxProbes
    /\ \E rec \in SysRecs :
          LET r == Lookup(rec, by_id, by_id64, by_name)
              skip == r.row = <<>> /\ only_matched
          IN /\ sysrec' = rec
             /\ prow' = r.row
             /\ via_id' = via_id + (IF r.via = "id" THEN 1 ELSE 0)
             /\ via_id64' = via_id64 + (IF r.via = "id64" THEN 1 ELSE 0)
             /\ via_name' = via_name + (IF r.via = "name" THEN 1 ELSE 0)
             /\ matched' = matched + (IF r.row # <<>> THEN 1 ELSE 0)
             /\ written' = written + 1
             /\ row_out' = IF skip THEN row_out ELSE RowOut(rec, r.row)
    /\ probes' = probes + 1
    /\ UNCHANGED <<jpc, rows, csv_rows, tableVars, only_matched>>
    /\ UNCHANGED <<streamVars, decVars, loopVars, gravVars, primVars, omphVars, toolVars>>

\* one iteration of main's loop over the decoded records
Probe ==
    /\ jpc = "probe"
    /\ probes < MaxProbes
    /\ \E rec \in SysRecs :
          LET r == Lookup(rec, by_id, by_id64, by_name)
              skip == r.row = <<>> /\ only_matched
          IN /\ sysrec' = rec
             /\ prow' = r.row
             /\ via_id' = via_id + (IF r.via = "id" THEN 1 ELSE 0)
             /\ via_id64' = via_id64 + (IF r.via = "id64" THEN 1 ELSE 0)
             /\ via_name' = via_name + (IF r.via = "name" THEN 1 ELSE 0)
             /\ matched' = matched + (IF r.row # <<>> THEN 1 ELSE 0)
             /\ written' = written + (IF skip THEN 0 ELSE 1)
             /\ row_out' = IF skip THEN row_out ELSE RowOut(rec, r.row)
    /\ probes' = probes + 1
    /\ UNCHANGED <<jpc, rows, csv_rows, tableVars, only_matched>>
    /\ UNCHANGED <<streamVars, decVars, loopVars, gravVars, primVars, omphVars, toolVars>>

\* the decoder is exhausted; main prints its summary
PassDone ==
    /\ jpc = "probe"
    /\ jpc' = "done"
    /\ UNCHANGED <<rows, csv_rows, tableVars, only_matched, probes, sysrec, prow, row_out, countVars>>
    /\ UNCHANGED <<streamVars, decVars, loopVars, gravVars, primVars, omphVars, toolVars>>

\* ------------------------------------------------------------------------
\* build_gravity_sources.main: the interest CSV, then the pass over the
\* systems dump; the records its decoder yields are drawn from GravRecs
\* ------------------------------------------------------------------------
\* one row of the interest CSV
InterestRow ==
    /\ grav_pc = "load"
    /\ Len(grav_csv) < MaxInterest
    /\ \E row \in GravCsvRows :
          LET sid == as_int(row.systemId)
          IN /\ grav_csv' = Append(grav_csv, row)
             /\ IF sid = <<>>
                THEN UNCHANGED <<need_system_ids, interest_rows>>
                ELSE /\ need_system_ids' = need_system_ids \cup {sid[1]}
                     /\ interest_rows' = Append(interest_rows, row)
    /\ UNCHANGED <<grav_pc, grav_limit, grav_sysrec, grav_scanned, grav_matched,
                   grav_processed, coords_by_system_id>>
    /\ UNCHANGED <<streamVars, decVars, loopVars, joinVars, primVars, omphVars, toolVars>>

\* the interest CSV is read; the pass over the dump starts
InterestDone ==
    /\ grav_pc = "load"
    /\ grav_pc' = "scan"
    /\ UNCHANGED <<grav_csv, interest_rows, need_system_ids, grav_limit, grav_sysrec,
                   grav_scanned, grav_matched, grav_processed, coords_by_system_id>>
    /\ UNCHANGED <<streamVars, decVars, loopVars, joinVars, primVars, omphVars, toolVars>>

\* one iteration of the loop over the decoded systems
GravBody ==
    /\ grav_pc = "scan"
    /\ grav_scanned < MaxRecs
    /\ \E rec \in GravRecs :
          LET sid == as_int(rec.id)
              x == as_float(rec.coords.x)
              y == as_float(rec.coords.y)
              z == as_float(rec.coords.z)
              sid64 == as_int(rec.id64)
          IN /\ grav_sysrec' = rec
             /\ grav_scanned' = grav_scanned + 1
             /\ IF grav_limit # 0 /\ grav_scanned' > grav_limit
                THEN /\ grav_pc' = "break"
                     /\ UNCHANGED <<grav_processed, coords_by_system_id, grav_matched>>
                ELSE /\ grav_pc' = "scan"
                     /\ grav_processed' = Append(grav_processed, rec)
                     /\ IF sid = <<>> \/ sid[1] \notin need_system_ids
                        THEN UNCHANGED <<coords_by_system_id, grav_matched>>
                        ELSE IF x = <<>> \/ y = <<>> \/ z = <<>>
                        THEN UNCHANGED <<coords_by_system_id, grav_matched>>
                        ELSE /\ coords_by_system_id' =
                                   Put(coords_by_system_id, sid[1],
                                       [name |-> OrEmpty(rec.name), x |-> x[1],
                                        y |-> y[1], z |-> z[1], sid64 |-> sid64])
                             /\ grav_matched' = grav_matched + 1
    /\ UNCHANGED <<grav_csv, interest_rows, need_system_ids, grav_limit>>
    /\ UNCHANGED <<streamVars, decVars, loopVars, joinVars, primVars, omphVars, toolVars>>

\* the decoder is exhausted; main prints scanned and len(coords_by_system_id)
GravEnd ==
    /\ grav_pc = "scan"
    /\ grav_pc' = "done"
    /\ UNCHANGED <<grav_csv, interest_rows, need_system_ids, grav_limit, grav_sysrec,
                   grav_scanned, grav_matched, grav_processed, coords_by_system_id>>
    /\ UNCHANGED <<streamVars, decVars, loopVars, joinVars, primVars, omphVars, toolVars>>

\* the rejection count the summary reports: the pass keeps none
RejectedReported == 0

InitGravVars ==
    /\ grav_pc = "load" /\ grav_csv = <<>>
    /\ interest_rows = <<>> /\ need_system_ids = {}
    /\ grav_limit = 0
    /\ grav_sysrec = NoGravRec
    /\ grav_scanned = 0 /\ grav_matched = 0 /\ grav_processed = <<>>
    /\ coords_by_system_id = EmptyDict

\* ------------------------------------------------------------------------
\* extract_primary_star_and_grav.main: the pass over the bodies dump; the
\* records its decoder yields are drawn from PrimRecs
\* ------------------------------------------------------------------------
Bump(c, k) == Put(c, k, IF k \in DOMAIN c THEN c[k] + 1 ELSE 1)

Get(d, k) == IF k \in DOMAIN d THEN <<d[k]>> ELSE <<>>

\* one iteration of the loop over the decoded bodies
PrimBody ==
    /\ prim_pc = "scan"
    /\ prim_scanned < MaxRecs
    /\ \E r \in PrimRecs :
          LET k == system_key(r)
              sub == norm(r.subType)
          IN /\ prim_rec' = r
             /\ prim_scanned' = prim_scanned + 1
             /\ IF limit # 0 /\ prim_scanned' > limit
                THEN /\ prim_pc' = "break"
                     /\ UNCHANGED <<stars_seen, primary_by_system, subtype_counts,
                                    prim_interest>>
                ELSE /\ prim_pc' = "scan"
                     /\ IF r.type # StrVal(<<"Star">>)
                        THEN UNCHANGED <<stars_seen, primary_by_system, subtype_counts,
                                         prim_interest>>
                        ELSE /\ stars_seen' = stars_seen + 1
                             /\ IF k[1] = "none"
                                THEN UNCHANGED <<primary_by_system, subtype_counts,
                                                 prim_interest>>
                                ELSE /\ subtype_counts' =
                                           IF sub # <<>> THEN Bump(subtype_counts, sub)
                                           ELSE subtype_counts
                                     /\ primary_by_system' =
                                           Put(primary_by_system, k,
                                               choose_primary(Get(primary_by_system, k), r))
                                     /\ prim_interest' =
                                           IF is_interesting_grav(sub)
                                           THEN Append(prim_interest,
                                                  [systemName |-> norm(r.systemName),
                                                   systemId |-> as_int(r.systemId),
                                                   systemId64 |-> as_int(r.systemId64),
                                                   subType |-> sub,
                                                   distanceToArrival |-> r.distanceToArrival])
                                           ELSE prim_interest
    /\ UNCHANGED limit
    /\ UNCHANGED <<streamVars, decVars, loopVars, joinVars, gravVars, omphVars, toolVars>>

\* the decoder is exhausted; main writes its two files
PrimEnd ==
    /\ prim_pc = "scan"
    /\ prim_pc' = "done"
    /\ UNCHANGED <<limit, prim_rec, prim_scanned, stars_seen, primary_by_system,
                   subtype_counts, prim_interest>>
    /\ UNCHANGED <<streamVars, decVars, loopVars, joinVars, gravVars, omphVars, toolVars>>

InitPrimVars ==
    /\ prim_pc = "scan" /\ limit = 0
    /\ prim_rec = NoPrimRec
    /\ prim_scanned = 0 /\ stars_seen = 0
    /\ primary_by_system = EmptyDict /\ subtype_counts = EmptyDict
    /\ prim_interest = <<>>

\* ------------------------------------------------------------------------
\* build_omphalos_systems: the loop over the systems of the dump, which
\* ijson hands out; they are drawn from OmphSystems
\* ------------------------------------------------------------------------
\* scripts/build_omphalos_systems: one iteration
OmphBody ==
    /\ script = "scripts"
    /\ omph_pc = "scan"
    /\ total < MaxRecs
    /\ \E sy \in OmphSystems :
          LET r == normalize_row(sy)
          IN /\ system' = sy
             /\ total' = total + 1
             /\ omph_row' = r.row
             /\ kept' = IF r.row # <<>> THEN kept + 1 ELSE kept
    /\ UNCHANGED <<script, omph_pc, omph_err, interesting_names, idx, total_kept>>
    /\ UNCHANGED <<streamVars, decVars, loopVars, joinVars, gravVars, primVars, toolVars>>

\* scripts2/build_omphalos_systems: one iteration
Omph2Body ==
    /\ script = "scripts2"
    /\ omph_pc = "scan"
    /\ idx < MaxRecs
    /\ \E sy \in OmphSystems :
          LET r == normalize_system_row(sy, interesting_names)
          IN /\ system' = sy
             /\ idx' = idx + 1
             /\ IF r.exc # ""
                THEN /\ omph_pc' = "abort"
                     /\ omph_err' = r.exc
                     /\ UNCHANGED <<omph_row, total_kept>>
                ELSE /\ omph_row' = r.row
                     /\ total_kept' = IF r.row # <<>> THEN total_kept + 1 ELSE total_kept
                     /\ UNCHANGED <<omph_pc, omph_err>>
    /\ UNCHANGED <<script, interesting_names, total, kept>>
    /\ UNCHANGED <<streamVars, decVars, loopVars, joinVars, gravVars, primVars, toolVars>>

\* the dump is exhausted; the builder prints how many systems it kept
OmphEnd ==
    /\ omph_pc = "scan"
    /\ omph_pc' = "done"
    /\ UNCHANGED <<script, omph_err, interesting_names, system, omph_row,
                   total, kept, idx, total_kept>>
    /\ UNCHANGED <<streamVars, decVars, loopVars, joinVars, gravVars, primVars, toolVars>>

InitOmphVars ==
    /\ script = "scripts" /\ omph_pc = "scan" /\ omph_err = ""
    /\ interesting_names = {}
    /\ system = NoSystem /\ omph_row = <<>>
    /\ total = 0 /\ kept = 0 /\ idx = 0 /\ total_kept = 0

\* ------------------------------------------------------------------------
\* extract_primary_star_and_grav.main, the entry of one key of
\* primary_by_system over the star records of that key
\* ------------------------------------------------------------------------
MaxStars == 3

\* primary_by_system[k] = choose_primary(primary_by_system.get(k), rec)
FoldStar ==
    /\ Len(fold_seen) < MaxStars
    /\ \E r \in StarRecs :
          /\ fold_best' = <<choose_primary(fold_best, r)>>
          /\ fold_seen' = Append(fold_seen, r)
    /\ UNCHANGED <<streamVars, decVars, loopVars, scriptVars, journalVars, harvestVars>>

InitFoldVars == fold_seen = <<>> /\ fold_best = <<>>

\* ------------------------------------------------------------------------
\* harvest.import_journals_to_witchspace and _iter_jumps_from_journal
\* An event is what json.loads gave for one line: its "event", and its
\* StarSystem and StarPos, <<>> when the key is absent. A position is
\* named by a number.
\* ------------------------------------------------------------------------
MaxJournals == 2
MaxEvents == 3

JournalEvent(e, sys, p) == [event |-> e, StarSystem |-> sys, StarPos |-> p]

JournalEvents ==
    {JournalEvent("Location", <<"A">>, <<1>>),
     JournalEvent("Location", <<"B">>, <<>>),
     JournalEvent("Location", <<>>, <<>>),
     JournalEvent("Location", <<"">>, <<2>>),
     JournalEvent("FSDJump", <<"A">>, <<1>>),
     JournalEvent("FSDJump", <<"B">>, <<2>>),
     JournalEvent("FSDJump", <<>>, <<>>),
     JournalEvent("Docked", <<"A">>, <<>>)}

\* a or b, for an optional text
Or(a, b) == IF a # <<>> /\ a # <<"">> THEN a ELSE b

\* a or b, for an optional position; the positions drawn are not empty
OrPos(a, b) == IF a # <<>> THEN a ELSE b

\* the file loop keeps last_system of the file before
JournalStart_KeepsSystem ==
    /\ jr_pc = "next"
    /\ IF journal_no = journal_files
       THEN /\ jr_pc' = "done"
            /\ UNCHANGED <<journal_no, journal_events, last_system, last_pos, jumps>>
       ELSE /\ jr_pc' = "read"
            /\ journal_no' = journal_no + 1
            /\ journal_events' = <<>>
            /\ jumps' = <<>>
            /\ UNCHANGED <<last_system, last_pos>>
    /\ UNCHANGED <<journal_files, journal_dry_run, appended, witch_log>>
    /\ UNCHANGED <<streamVars, decVars, loopVars, scriptVars, foldVars, harvestVars>>

\* for jf in journal_files: the generator of the next file starts, or the
\* loop ends
JournalStart ==
    /\ jr_pc = "next"
    /\ IF journal_no = journal_files
       THEN /\ jr_pc' = "done"
            /\ UNCHANGED <<journal_no, journal_events, last_system, last_pos, jumps>>
       ELSE /\ jr_pc' = "read"
            /\ journal_no' = journal_no + 1
            /\ journal_events' = <<>>
            /\ jumps' = <<>>
            /\ last_system' = <<>>
            /\ last_pos' = <<>>
    /\ UNCHANGED <<journal_files, journal_dry_run, appended, witch_log>>
    /\ UNCHANGED <<streamVars, decVars, loopVars, scriptVars, foldVars, harvestVars>>

\* one event of the file: the generator's loop body and, for a tuple it
\* yields, the body of the importer's loop
JournalRead ==
    /\ jr_pc = "read"
    /\ Len(journal_events) < MaxEvents
    /\ \E evt \in JournalEvents :
          /\ journal_events' = Append(journal_events, evt)
          /\ IF evt.event = "Location"
             THEN /\ last_system' = Or(evt.StarSystem, last_system)
                  /\ last_pos' = OrPos(evt.StarPos, last_pos)
                  /\ UNCHANGED <<jumps, appended, witch_log>>
             ELSE IF evt.event = "FSDJump"
             THEN /\ jumps' = Append(jumps,
                        [evt |-> evt,
                         origin |-> Or(last_system, <<"(unknown)">>)[1],
                         dest |-> evt.StarSystem,
                         origin_pos |-> last_pos,
                         dest_pos |-> evt.StarPos])
                  /\ last_system' = evt.StarSystem
                  /\ last_pos' = evt.StarPos
                  /\ witch_log' = IF journal_dry_run THEN witch_log ELSE witch_log + 1
                  /\ appended' = appended + 1
             ELSE UNCHANGED <<last_system, last_pos, jumps, appended, witch_log>>
    /\ UNCHANGED <<jr_pc, journal_files, journal_no, journal_dry_run>>
    /\ UNCHANGED <<streamVars, decVars, loopVars, scriptVars, foldVars, harvestVars>>

\* the file has no more lines
JournalEof ==
    /\ jr_pc = "read"
    /\ jr_pc' = "next"
    /\ UNCHANGED <<journal_files, journal_no, journal_events, last_system, last_pos,
                   jumps, journal_dry_run, appended, witch_log>>
    /\ UNCHANGED <<streamVars, decVars, loopVars, scriptVars, foldVars, harvestVars>>

InitJournalVars ==
    /\ jr_pc = "next" /\ journal_files = 0 /\ journal_no = 0
    /\ journal_events = <<>> /\ last_system = <<>> /\ last_pos = <<>>
    /\ jumps = <<>> /\ journal_dry_run = FALSE /\ appended = 0 /\ witch_log = 0

\* ------------------------------------------------------------------------
\* harvest.fill_missing_coords_from_edsm over SYSTEMS_CSV, as the web
\* dashboard runs it: from the scheduler's daily job and from the handler
\* of POST /api/harvest/coords
\* A row of the file carries its coordinates as texts; a system in memory
\* carries them as optional floats, in tenths.
\* ------------------------------------------------------------------------
MaxSystems == 2

Runs == {"job", "post"}

\* str(f) of a float f >= 0 given in tenths
RECURSIVE IntText(_)
IntText(n) ==
    IF n < 10 THEN <<DigitChars[n + 1]>>
    ELSE IntText(n \div 10) \o <<DigitChars[(n % 10) + 1]>>

FloatText(t) == IntText(t \div 10) \o <<".">> \o <<DigitChars[(t % 10) + 1]>>

\* load_systems_csv.parse_float
parse_float(cs) == IF Strip(cs) = <<>> THEN <<>> ELSE <<FloatTenths(Strip(cs))>>

\* load_systems_csv, one row
LoadSystem(r) ==
    [name |-> r.name, x |-> parse_float(r.x), y |-> parse_float(r.y),
     z |-> parse_float(r.z),
     category |-> IF r.category = "" THEN "unknown" ELSE r.category,
     notes |-> r.notes]

load_systems_csv(rs) == [k \in 1..Len(rs) |-> LoadSystem(rs[k])]

OptText(v) == IF v = <<>> THEN <<>> ELSE FloatText(v[1])

\* write_systems_csv, one row
WriteSystem(sy) ==
    [name |-> sy.name, x |-> OptText(sy.x), y |-> OptText(sy.y), z |-> OptText(sy.z),
     category |-> sy.category, notes |-> sy.notes]

write_systems_csv(ss) == [k \in 1..Len(ss) |-> WriteSystem(ss[k])]

\* the coordinates of a row of the file: none, all three, or x alone
CsvCoords ==
    {[x |-> <<>>, y |-> <<>>, z |-> <<>>],
     [x |-> <<"1">>, y |-> <<"2", ".", "5">>, z |-> <<"0">>],
     [x |-> <<"1">>, y |-> <<>>, z |-> <<>>]}

CsvSystem(k, c) ==
    [name |-> k, x |-> c.x, y |-> c.y, z |-> c.z, category |-> "", notes |-> <<>>]

\* the files: rows named 1, 2, ...
CsvFiles ==
    UNION {{[k \in 1..n |-> CsvSystem(k, f[k])] : f \in [1..n -> CsvCoords]} :
              n \in 1..MaxSystems}

\* what _edsm_get_system gives: None; data whose coords lack a value; data
\* with coords, permit-locked or not
EdsmAnswers == {"none", "partial", "coords", "coords_permit"}

\* the coordinates EDSM has, in tenths
EdsmCoord == 30

has_coords(sy) == sy.x # <<>> /\ sy.y # <<>> /\ sy.z # <<>>

\* the system with the coordinates and the permit note of the answer
Updated(sy, answer) ==
    LET cat == sy.category
        permit == answer = "coords_permit"
    IN [name |-> sy.name, x |-> <<EdsmCoord>>, y |-> <<EdsmCoord>>, z |-> <<EdsmCoord>>,
        category |-> IF permit /\ cat # "permit_locked" /\ cat = ""
                     THEN "permit_locked" ELSE cat,
        notes |-> IF ~permit THEN sy.notes
                  ELSE IF sy.notes = <<>> THEN <<"Permit-locked">>
                  ELSE IF \E k \in 1..Len(sy.notes) : sy.notes[k] = "Permit-locked"
                  THEN sy.notes
                  ELSE sy.notes \o <<"Permit-locked">>]

\* systems = load_systems_csv(csv_path); updated = 0
HarvestLoad(run) ==
    /\ hv_pc[run] = "idle"
    /\ hv_systems' = [hv_systems EXCEPT ![run] = load_systems_csv(systems_csv)]
    /\ hv_i' = [hv_i EXCEPT ![run] = 1]
    /\ hv_updated' = [hv_updated EXCEPT ![run] = 0]
    /\ hv_pc' = [hv_pc EXCEPT ![run] = "loop"]
    /\ UNCHANGED <<systems_csv, hv_dry_run, hv_looked_up, hv_set, hv_result>>
    /\ UNCHANGED <<streamVars, decVars, loopVars, scriptVars, foldVars, journalVars>>

\* one iteration of the loop over systems
HarvestSystem(run) ==
    /\ hv_pc[run] = "loop"
    /\ hv_i[run] <= Len(hv_systems[run])
    /\ LET k == hv_i[run]
           sy == hv_systems[run][k]
       IN IF has_coords(sy)
          THEN UNCHANGED <<hv_systems, hv_updated, hv_looked_up, hv_set>>
          ELSE /\ hv_looked_up' = [hv_looked_up EXCEPT ![run] = @ \cup {k}]
               /\ \E answer \in EdsmAnswers :
                     IF answer \in {"none", "partial"}
                     THEN UNCHANGED <<hv_systems, hv_updated, hv_set>>
                     ELSE /\ hv_systems' =
                                [hv_systems EXCEPT ![run][k] = Updated(sy, answer)]
                          /\ hv_updated' = [hv_updated EXCEPT ![run] = @ + 1]
                          /\ hv_set' = [hv_set EXCEPT ![run] = @ \cup {k}]
    /\ hv_i' = [hv_i EXCEPT ![run] = @ + 1]
    /\ UNCHANGED <<systems_csv, hv_pc, hv_dry_run, hv_result>>
    /\ UNCHANGED <<streamVars, decVars, loopVars, scriptVars, foldVars, journalVars>>

\* the file is written whatever dry_run says
HarvestFinish_IgnoresDryRun(run) ==
    /\ hv_pc[run] = "loop"
    /\ hv_i[run] > Len(hv_systems[run])
    /\ IF hv_updated[run] > 0
       THEN /\ hv_pc' = [hv_pc EXCEPT ![run] = "write"]
            /\ systems_csv' = <<>>
            /\ UNCHANGED hv_result
       ELSE /\ hv_pc' = [hv_pc EXCEPT ![run] = "done"]
            /\ hv_result' = [hv_result EXCEPT ![run] = <<hv_updated[run]>>]
            /\ UNCHANGED systems_csv
    /\ UNCHANGED <<hv_dry_run, hv_systems, hv_i, hv_updated, hv_looked_up, hv_set>>
    /\ UNCHANGED <<streamVars, decVars, loopVars, scriptVars, foldVars, journalVars>>

\* after the loop: if not dry_run and updated, write_systems_csv opens the
\* file for writing, which empties it; otherwise return updated
HarvestFinish(run) ==
    /\ hv_pc[run] = "loop"
    /\ hv_i[run] > Len(hv_systems[run])
    /\ IF ~hv_dry_run[run] /\ hv_updated[run] > 0
       THEN /\ hv_pc' = [hv_pc EXCEPT ![run] = "write"]
            /\ systems_csv' = <<>>
            /\ UNCHANGED hv_result
       ELSE /\ hv_pc' = [hv_pc EXCEPT ![run] = "done"]
            /\ hv_result' = [hv_result EXCEPT ![run] = <<hv_updated[run]>>]
            /\ UNCHANGED systems_csv
    /\ UNCHANGED <<hv_dry_run, hv_systems, hv_i, hv_updated, hv_looked_up, hv_set>>
    /\ UNCHANGED <<streamVars, decVars, loopVars, scriptVars, foldVars, journalVars>>

\* write_systems_csv's rows reach the file when it is closed; return updated
HarvestWrite(run) ==
    /\ hv_pc[run] = "write"
    /\ systems_csv' = write_systems_csv(hv_systems[run])
    /\ hv_pc' = [hv_pc EXCEPT ![run] = "done"]
    /\ hv_result' = [hv_result EXCEPT ![run] = <<hv_updated[run]>>]
    /\ UNCHANGED <<hv_dry_run, hv_systems, hv_i, hv_updated, hv_looked_up, hv_set>>
    /\ UNCHANGED <<streamVars, decVars, loopVars, scriptVars, foldVars, journalVars>>

InitRuns ==
    /\ hv_systems = [run \in Runs |-> <<>>]
    /\ hv_i = [run \in Runs |-> 0]
    /\ hv_updated = [run \in Runs |-> 0]
    /\ hv_looked_up = [run \in Runs |-> {}]
    /\ hv_set = [run \in Runs |-> {}]
    /\ hv_result = [run \in Runs |-> <<>>]

InitHarvestVars ==
    /\ systems_csv = <<>>
    /\ hv_pc = [run \in Runs |-> "off"]
    /\ hv_dry_run = [run \in Runs |-> FALSE]
    /\ InitRuns

InitToolVars == InitFoldVars /\ InitJournalVars /\ InitHarvestVars

InitJoinVars ==
    /\ jpc = "load" /\ rows = 0 /\ csv_rows = <<>>
    /\ by_id = EmptyDict /\ by_id64 = EmptyDict /\ by_name = EmptyDict
    /\ probes = 0 /\ sysrec = NoRec /\ prow = <<>> /\ row_out = NoRowOut
    /\ matched = 0 /\ via_id = 0 /\ via_id64 = 0 /\ via_name = 0 /\ written = 0

InitDec ==
    /\ pos = 0
    /\ pc = "start" /\ err = ""
    /\ buf = <<>> /\ depth = 0 /\ in_str = FALSE /\ esc = FALSE
    /\ yielded = <<>>
    /\ cpc = "pull" /\ scanned = 0 /\ processed = <<>> /\ late_pulls = 0

InitStream ==
    \/ file = <<>> /\ open = TRUE
    \/ file \in CorpusPrefixes /\ open = FALSE

\* the decoder drained by the loop with the default --limit_systems 0
Init ==
    /\ InitStream
    /\ InitDec
    /\ limit_systems = 0
    /\ InitToolVars
    /\ InitJoinVars /\ only_matched = FALSE
    /\ InitGravVars
    /\ InitPrimVars
    /\ InitOmphVars

Next ==
    \/ ReadStart
    \/ ReadSeekFirst
    \/ ReadObj
    \/ ReadSeekNext
    \/ LoopBody
    \/ PullAfterEnd

Spec == Init /\ [][Next]_vars

\* the same loop with every cap from 0 to MaxLimit
InitCap ==
    /\ InitStream
    /\ InitDec
    /\ limit_systems \in 0..MaxLimit
    /\ InitToolVars
    /\ InitJoinVars /\ only_matched = FALSE
    /\ InitGravVars
    /\ InitPrimVars
    /\ InitOmphVars

SpecCap == InitCap /\ [][Next]_vars

\* join_star_type_to_coords.main; the records its decoder yields are drawn
\* from SysRecs
InitJoin ==
    /\ file = <<>> /\ open = FALSE
    /\ InitDec
    /\ limit_systems = 0
    /\ InitToolVars
    /\ InitJoinVars
    /\ only_matched \in BOOLEAN
    /\ InitGravVars
    /\ InitPrimVars
    /\ InitOmphVars

NextJoin ==
    \/ LoadRow
    \/ LoadDone
    \/ Probe
    \/ PassDone

SpecJoin == InitJoin /\ [][NextJoin]_vars

\* build_gravity_sources.main with and without a cap
InitGrav ==
    /\ file = <<>> /\ open = FALSE
    /\ InitDec
    /\ limit_systems = 0
    /\ InitToolVars
    /\ InitJoinVars /\ only_matched = FALSE
    /\ grav_pc = "load" /\ grav_csv = <<>>
    /\ interest_rows = <<>> /\ need_system_ids = {}
    /\ grav_limit \in {0, 1}
    /\ grav_sysrec = NoGravRec
    /\ grav_scanned = 0 /\ grav_matched = 0 /\ grav_processed = <<>>
    /\ coords_by_system_id = EmptyDict
    /\ InitPrimVars
    /\ InitOmphVars

NextGrav ==
    \/ InterestRow
    \/ InterestDone
    \/ GravBody
    \/ GravEnd

SpecGrav == InitGrav /\ [][NextGrav]_vars

\* extract_primary_star_and_grav.main with and without a cap
InitPrim ==
    /\ file = <<>> /\ open = FALSE
    /\ InitDec
    /\ limit_systems = 0
    /\ InitToolVars
    /\ InitJoinVars /\ only_matched = FALSE
    /\ InitGravVars
    /\ prim_pc = "scan" /\ limit \in {0, 1}
    /\ prim_rec = NoPrimRec
    /\ prim_scanned = 0 /\ stars_seen = 0
    /\ primary_by_system = EmptyDict /\ subtype_counts = EmptyDict
    /\ prim_interest = <<>>
    /\ InitOmphVars

NextPrim ==
    \/ PrimBody
    \/ PrimEnd

SpecPrim == InitPrim /\ [][NextPrim]_vars

\* either of the two omphalos builders over a dump
InitOmph ==
    /\ file = <<>> /\ open = FALSE
    /\ InitDec
    /\ limit_systems = 0
    /\ InitToolVars
    /\ InitJoinVars /\ only_matched = FALSE
    /\ InitGravVars
    /\ InitPrimVars
    /\ script \in {"scripts", "scripts2"}
    /\ omph_pc = "scan" /\ omph_err = ""
    /\ interesting_names \in {{}, {<<"b">>}}
    /\ system = NoSystem /\ omph_row = <<>>
    /\ total = 0 /\ kept = 0 /\ idx = 0 /\ total_kept = 0

NextOmph ==
    \/ OmphBody
    \/ Omph2Body
    \/ OmphEnd

SpecOmph == InitOmph /\ [][NextOmph]_vars

\* choose_primary folded over the star records of one system
InitFold ==
    /\ file = <<>> /\ open = FALSE
    /\ InitDec
    /\ limit_systems = 0
    /\ InitToolVars
    /\ InitJoinVars /\ only_matched = FALSE
    /\ InitGravVars
    /\ InitPrimVars
    /\ InitOmphVars

NextFold == FoldStar

SpecFold == InitFold /\ [][NextFold]_vars

\* import_journals_to_witchspace over a directory of journal files
InitJournal ==
    /\ file = <<>> /\ open = FALSE
    /\ InitDec
    /\ limit_systems = 0
    /\ InitFoldVars /\ InitHarvestVars
    /\ jr_pc = "next" /\ journal_files \in 0..MaxJournals /\ journal_no = 0
    /\ journal_events = <<>> /\ last_system = <<>> /\ last_pos = <<>>
    /\ jumps = <<>> /\ journal_dry_run \in BOOLEAN /\ appended = 0 /\ witch_log = 0
    /\ InitJoinVars /\ only_matched = FALSE
    /\ InitGravVars
    /\ InitPrimVars
    /\ InitOmphVars

NextJournal ==
    \/ JournalStart
    \/ JournalRead
    \/ JournalEof

SpecJournal == InitJournal /\ [][NextJournal]_vars

InitBatch ==
    /\ file = <<>> /\ open = FALSE
    /\ InitDec
    /\ limit_systems = 0
    /\ InitJoinVars /\ only_matched = FALSE
    /\ InitGravVars
    /\ InitPrimVars
    /\ InitOmphVars

\* one call of fill_missing_coords_from_edsm
InitCoords ==
    /\ InitBatch
    /\ InitFoldVars /\ InitJournalVars
    /\ systems_csv \in CsvFiles
    /\ hv_pc = [run \in Runs |-> IF run = "post" THEN "idle" ELSE "off"]
    /\ hv_dry_run \in {[run \in Runs |-> d] : d \in BOOLEAN}
    /\ InitRuns

NextCoords ==
    \E run \in Runs :
        \/ HarvestLoad(run)
        \/ HarvestSystem(run)
        \/ HarvestFinish(run)
        \/ HarvestWrite(run)

SpecCoords == InitCoords /\ [][NextCoords]_vars

\* create_app: the scheduler's job and the handler of POST
\* /api/harvest/coords each call fill_missing_coords_from_edsm(SYSTEMS_CSV,
\* dry_run=False), on threads of their own
InitOverlap ==
    /\ InitBatch
    /\ InitFoldVars /\ InitJournalVars
    /\ systems_csv \in CsvFiles
    /\ hv_pc = [run \in Runs |-> "idle"]
    /\ hv_dry_run = [run \in Runs |-> FALSE]
    /\ InitRuns

NextOverlap ==
    \E run \in Runs :
        \/ HarvestLoad(run)
        \/ HarvestSystem(run)
        \/ HarvestFinish(run)
        \/ HarvestWrite(run)

SpecOverlap == InitOverlap /\ [][NextOverlap]_vars

\* ------------------------------------------------------------------------
\* Properties of the decoder
\* ------------------------------------------------------------------------
Vals(y) == [k \in 1..Len(y) |-> y[k].val]
Spans(y) == [k \in 1..Len(y) |-> <<y[k].from, y[k].to>>]

\* the loop is over: the generator returned or raised
LoopOver == cpc \in {"end", "abort"}

\* C1: when the complete text is one well-formed array of N objects, the
\* decoder returns normally having yielded exactly N values, in input order,
\* the k-th equal to the k-th element of the reference parse and taken from
\* the same span of the text (nested objects add no elements), and the loop
\* has received exactly those values.
C1_YieldsReferenceElements ==
    (LoopOver /\ RefParse(file).status = "ok") =>
        /\ cpc = "end" /\ pc = "done" /\ err = ""
        /\ Len(yielded) = Len(RefParse(file).spans)
        /\ Spans(yielded) = RefParse(file).spans
        /\ Vals(yielded) = RefValues(file)
        /\ processed = RefValues(file)

C1_Witness ==
    /\ cpc = "end"
    /\ file = DocNested
    /\ RefParse(file).status = "ok"
    /\ Len(yielded) = 3
    /\ yielded[2].val = <<LC, QT, QT, CL, LC, RC, RC>>

\* what a step that yields must look like
C2_YieldStep ==
    yielded' # yielded =>
        /\ pc = "in_obj" /\ ~in_str /\ depth = 1 /\ depth' = 0
        /\ pos' = pos + 1 /\ file'[pos'] = RC
        /\ Len(yielded') = Len(yielded) + 1
        /\ SubSeq(yielded', 1, Len(yielded)) = yielded
        /\ LET y == yielded'[Len(yielded')] IN
              /\ y.to = pos'
              /\ y.from >= 1 /\ y.from <= y.to
              /\ file'[y.from] = LC
              /\ buf' = SubSeq(file', y.from, y.to)
              /\ y.val = json_loads(buf')

\* C2: a value is handed to the caller only by the step that reads "}"
\* outside a string with depth going from 1 to 0, and the text given to
\* json.loads is the contiguous piece of the input from the object's "{"
\* to that "}", all of it already read.
C2_YieldOnlyAtClosingBrace == [][C2_YieldStep]_vars

C2_Witness ==
    /\ pc = "yielded"
    /\ Len(yielded) = 2
    /\ yielded[2].from + 1 < yielded[2].to
    /\ file[pos] = RC /\ yielded[2].to = pos

\* the decoder is inside a string when it reads s[i]
InString(s, i) ==
    LET p == StateAfter(s, i - 1) IN p.pc = "in_obj" /\ p.in_str

\* characters that are ordinary string content: neither quote nor backslash
StrChars == {LC, RC, LB, RB, CM, CL, SP}

\* a step taken inside a string
C3_DepthStep == (pc = "in_obj" /\ in_str) => depth' = depth

\* the finished run against the runs over the texts that differ from it in
\* one character of a string
C3_SameBoundaries ==
    LoopOver =>
        \A i \in 1..Len(file) :
            (InString(file, i) /\ file[i] \in StrChars) =>
                \A c \in StrChars :
                    LET d == Decode([file EXCEPT ![i] = c]) IN
                        /\ Spans(d.out) = Spans(yielded)
                        /\ d.pc = pc
                        /\ d.err = err

\* C3: inside a string no character changes the brace depth, and replacing
\* any character of a string by "{", "}", "[", "]" or "," (or one of those
\* by another ordinary character) leaves the number of objects found, their
\* boundaries and the way the decoder ends unchanged.
C3_StringContentInert == [][C3_DepthStep]_vars /\ []C3_SameBoundaries

C3_Witness ==
    /\ cpc = "end"
    /\ Len(yielded) = 2
    /\ \E i \in 1..Len(file) : InString(file, i) /\ file[i] = RC
    /\ \E i \in 1..Len(file) : InString(file, i) /\ file[i] = LC
    /\ \E i \in 1..Len(file) : InString(file, i) /\ file[i] = RB

\* number of consecutive backslashes ending at position n of s
RECURSIVE TrailingBS(_, _)
TrailingBS(s, n) ==
    IF n >= 1 /\ s[n] = BS THEN 1 + TrailingBS(s, n - 1) ELSE 0

\* a step that reads one character inside a string
C4_Step ==
    (pc = "in_obj" /\ in_str /\ pos' = pos + 1) =>
        /\ esc <=> (TrailingBS(file, pos) % 2 = 1)
        /\ esc => (in_str' /\ ~esc')
        /\ (~esc /\ file'[pos'] = BS) => (in_str' /\ esc')
        /\ (~esc /\ file'[pos'] # BS) => ~esc'
        /\ file'[pos'] = QT => (in_str' <=> (TrailingBS(file, pos) % 2 = 1))
        /\ file'[pos'] # QT => in_str'

\* C4: inside a string a backslash makes exactly the next character escaped,
\* an escaped character never changes string mode, and a quote ends the
\* string exactly when an even number (zero included) of consecutive
\* backslashes precedes it.
C4_EscapedQuoteStaysInString == [][C4_Step]_vars

C4_Witness ==
    /\ pc = "in_obj" /\ in_str /\ ~esc
    /\ pos >= 2 /\ file[pos] = QT
    /\ TrailingBS(file, pos - 1) = 1

\* the finished run over a text that ends inside a top-level object
C5_Truncated ==
    (LoopOver /\ RefParse(file).status = "trunc_in") =>
        /\ cpc = "abort" /\ pc = "error" /\ err = "eof_mid"
        /\ depth > 0 /\ pos = Len(file)
        /\ Spans(yielded) = RefParse(file).spans
        /\ Vals(yielded) = RefValues(file)
        /\ processed = RefValues(file)
        /\ \A k \in 1..Len(yielded) : yielded[k].to < pos - Len(buf) + 1

\* the state in which "EOF mid-object" has been raised
C5_Raised ==
    err = "eof_mid" =>
        /\ pc = "error" /\ depth > 0 /\ pos = Len(file) /\ ~open
        /\ buf = SubSeq(file, pos - Len(buf) + 1, pos)
        /\ \A k \in 1..Len(yielded) : yielded[k].to < pos - Len(buf) + 1

\* the step that meets end of input inside an object raises at once, reads
\* nothing more and leaves what was yielded as it is; after the error the
\* generator takes no further step
C5_Step ==
    /\ (pc = "in_obj" /\ pos' = pos /\ cpc' # cpc) =>
          (pc' = "error" /\ err' = "eof_mid" /\ cpc' = "abort"
           /\ yielded' = yielded /\ buf' = buf)
    /\ pc = "error" => UNCHANGED <<decVars, pos, cpc>>

\* C5: when the text ends inside a top-level object the decoder raises
\* "EOF mid-object" after reading all of it; the open object is not
\* yielded, the objects completed before it have all been yielded, equal to
\* the reference values, and the decoder stops there.
C5_EofMidObjectRaises == [](C5_Truncated /\ C5_Raised) /\ [][C5_Step]_vars

C5_Witness ==
    /\ cpc = "abort" /\ err = "eof_mid"
    /\ RefParse(file).status = "trunc_in"
    /\ Len(yielded) = 1
    /\ in_str

\* the first character that is not whitespace is "["
FirstTokenIsLB(s) == LET i == SkipWs(s, 1) IN i <= Len(s) /\ s[i] = LB

\* C6: when the first non-whitespace character is not "[" (or there is
\* none) the decoder raises the format error at that character, with no
\* buffer started and nothing yielded; the format error is raised only then
\* and never after a yield.
C6_FormatError ==
    /\ (pc # "start" /\ ~FirstTokenIsLB(file)) =>
          /\ pc = "error" /\ err = "format" /\ cpc = "abort"
          /\ pos = SkipWs(file, 1) \/ (pos = Len(file) /\ SkipWs(file, 1) > Len(file))
          /\ buf = <<>> /\ depth = 0 /\ yielded = <<>> /\ processed = <<>>
    /\ err = "format" =>
          /\ ~FirstTokenIsLB(file)
          /\ buf = <<>> /\ yielded = <<>> /\ scanned = 0

C6_Witness ==
    /\ err = "format"
    /\ Len(file) >= 2 /\ file[1] = SP /\ file[2] = LC

\* position of the first "{" or "]" of s at or after i, Len(s) + 1 if none
RECURSIVE FirstBraceOrClose(_, _)
FirstBraceOrClose(s, i) ==
    IF i > Len(s) \/ s[i] \in {LC, RB} THEN i ELSE FirstBraceOrClose(s, i + 1)

\* C7: when "[" is followed by "]" with no "{" in between, whatever else
\* stands between them, the decoder yields nothing and returns normally at
\* that "]".
C7_EmptyArray ==
    LET i == SkipWs(file, 1)
        j == FirstBraceOrClose(file, i + 1)
    IN (FirstTokenIsLB(file) /\ j <= Len(file) /\ file[j] = RB /\ pos >= j) =>
          /\ pc = "done" /\ err = "" /\ cpc = "end"
          /\ pos = j
          /\ yielded = <<>> /\ processed = <<>> /\ scanned = 0

C7_Witness ==
    /\ cpc = "end" /\ yielded = <<>>
    /\ file = <<LB, QT, CM, RB>>

\* a step that leaves the scan for the next object
C8_Step ==
    (pc \in {"yielded", "seek_next"} /\ pc' # pc) =>
        /\ pc' \in {"seek_next", "in_obj", "done"}
        /\ err' = ""
        /\ pc' = "done" => (pos' = pos \/ file'[pos'] = RB)
        /\ (pos' = pos) => pc' = "done"

\* the finished run over a text cut off after a complete object
C8_CutBetween ==
    (LoopOver /\ RefParse(file).status = "trunc_between"
              /\ Len(RefParse(file).spans) >= 1) =>
        /\ cpc = "end" /\ pc = "done" /\ err = ""
        /\ Spans(yielded) = RefParse(file).spans
        /\ Vals(yielded) = RefValues(file)
        /\ processed = RefValues(file)

\* C8: after a completed object both "]" and end of input before any
\* further "{" end the sequence normally; a text cut off between objects
\* raises nothing and every complete object has been yielded.
C8_MissingCloseIsNormalEnd == [][C8_Step]_vars /\ []C8_CutBetween

C8_Witness ==
    /\ cpc = "end" /\ err = ""
    /\ RefParse(file).status = "trunc_between"
    /\ Len(yielded) = 2
    /\ pos = Len(file) /\ file[pos] = CM

\* ------------------------------------------------------------------------
\* Properties of the consuming loop and of the join
\* ------------------------------------------------------------------------
Min(a, b) == IF a <= b THEN a ELSE b

\* C9 (as claimed): with a cap N > 0 at most N elements are decoded and the
\* element after the N-th is never requested, so it cannot abort the run;
\* the elements processed are the first min(N, total) of the stream; with
\* cap 0 every element is processed.
C9_CapStopsPulling ==
    /\ limit_systems > 0 => Len(yielded) <= limit_systems
    /\ (limit_systems > 0 /\ Len(processed) = limit_systems) => cpc # "abort"
    /\ processed = SubSeq(Vals(yielded), 1, Len(processed))
    /\ (cpc \in {"end", "break"} /\ limit_systems > 0) =>
          Len(processed) = Min(limit_systems, Len(yielded))
    /\ (cpc = "end" /\ limit_systems = 0) => processed = Vals(yielded)

\* C10 (as claimed): a probing record that carries a higher-priority
\* identifier is never matched through a lower-priority table: a numeric id
\* missing from by_id leaves the record unmatched, and so does an id64
\* missing from by_id64 when there is no numeric id.
C10_NoFallThrough ==
    probes > 0 =>
        LET sid == safe_int(sysrec.id)
            sid64 == safe_int(sysrec.id64)
        IN /\ (sid # <<>> /\ sid[1] \notin DOMAIN by_id) => prow = <<>>
           /\ (sid = <<>> /\ sid64 # <<>> /\ sid64[1] \notin DOMAIN by_id64) => prow = <<>>

\* the key a CSV row has in each table (<<>> when it has none)
IdKey(r) == safe_int(r.systemId)
Id64Key(r) == safe_int(r.systemId64)
NameKey(r) == IF norm_name(r.systemName) = <<>> THEN <<>> ELSE <<norm_name(r.systemName)>>

\* the last of the rows read that carries the key k, by the key function K
LastWith(K(_), k) ==
    LET I == {i \in 1..Len(csv_rows) : K(csv_rows[i]) = <<k>>}
    IN csv_rows[CHOOSE i \in I : \A j \in I : j <= i]

KeysOf(K(_)) == {K(csv_rows[i])[1] : i \in {j \in 1..Len(csv_rows) : K(csv_rows[j]) # <<>>}}

C11_ProbeStep ==
    probes' = probes + 1 =>
        LET sid == safe_int(sysrec'.id)
            sid64 == safe_int(sysrec'.id64)
            nm == norm_name(sysrec'.name)
            hit_id == sid # <<>> /\ sid[1] \in DOMAIN by_id
            hit_id64 == sid64 # <<>> /\ sid64[1] \in DOMAIN by_id64
            hit_name == nm # <<>> /\ nm \in DOMAIN by_name
            d_id == via_id' - via_id
            d_id64 == via_id64' - via_id64
            d_name == via_name' - via_name
        IN /\ hit_id => prow' = <<by_id[sid[1]]>> /\ d_id = 1
           /\ (~hit_id /\ hit_id64) => prow' = <<by_id64[sid64[1]]>> /\ d_id64 = 1
           /\ (~hit_id /\ ~hit_id64 /\ hit_name) => prow' = <<by_name[nm]>> /\ d_name = 1
           /\ (~hit_id /\ ~hit_id64 /\ ~hit_name) => prow' = <<>>
           /\ {d_id, d_id64, d_name} \subseteq {0, 1}
           /\ d_id + d_id64 + d_name = (IF prow' # <<>> THEN 1 ELSE 0)
           /\ matched' - matched = d_id + d_id64 + d_name

\* C11: a probe tries by_id, then by_id64, then by_name and takes the first
\* table that holds the record's key: when the record's numeric id is a key
\* of by_id the row found is by_id[id] whatever its id64 and name would
\* match, and a matched record increments exactly one of via_id, via_id64
\* and via_name (an unmatched one none).
C11_FirstHitWins == [][C11_ProbeStep]_vars

C11_Witness ==
    /\ probes > 0
    /\ safe_int(sysrec.id) # <<>> /\ safe_int(sysrec.id)[1] \in DOMAIN by_id
    /\ norm_name(sysrec.name) \in DOMAIN by_name
    /\ by_name[norm_name(sysrec.name)] # by_id[safe_int(sysrec.id)[1]]
    /\ prow = <<by_id[safe_int(sysrec.id)[1]]>>
    /\ via_id = 1 /\ via_id64 = 0 /\ via_name = 0

\* C15: the keys of the join tables are unique and the last writer wins:
\* after any sequence of rows each of by_id, by_id64 and by_name has exactly
\* the keys the rows carried and maps each key to the last row that carried
\* it; an earlier row with the same key is replaced, and the only counter of
\* the build, rows, counts every row read.
C15_LastWriterWins ==
    /\ rows = Len(csv_rows)
    /\ DOMAIN by_id = KeysOf(IdKey)
    /\ DOMAIN by_id64 = KeysOf(Id64Key)
    /\ DOMAIN by_name = KeysOf(NameKey)
    /\ \A k \in DOMAIN by_id : by_id[k] = LastWith(IdKey, k)
    /\ \A k \in DOMAIN by_id64 : by_id64[k] = LastWith(Id64Key, k)
    /\ \A k \in DOMAIN by_name : by_name[k] = LastWith(NameKey, k)

C15_Witness ==
    /\ jpc = "probe"
    /\ Len(csv_rows) = 2
    /\ IdKey(csv_rows[1]) = <<3>> /\ IdKey(csv_rows[2]) = <<3>>
    /\ csv_rows[1].systemName # csv_rows[2].systemName
    /\ by_id[3] = csv_rows[2]
    /\ rows = 2

C16_Step ==
    /\ rows' # rows => jpc = "load" /\ probes = 0
    /\ probes' # probes => jpc = "probe"
    /\ jpc # "load" => UNCHANGED <<by_id, by_id64, by_name, rows, csv_rows>>
    /\ jpc' = "load" => jpc = "load"

\* C16: the build phase is over before the first record is probed and the
\* probing pass only reads the tables: no step taken after load_primary_maps
\* has returned inserts, overwrites or removes an entry of by_id, by_id64 or
\* by_name, so at the end of the pass they are the tables it returned.
C16_ProbeReadOnly == [][C16_Step]_vars /\ [](probes > 0 => jpc # "load")

C16_Witness ==
    /\ jpc = "done"
    /\ probes >= 2
    /\ rows >= 1
    /\ matched >= 1
    /\ by_id # EmptyDict

\* ------------------------------------------------------------------------
\* The decoder as a sequence, and its buffer
\* ------------------------------------------------------------------------
C19_Step ==
    /\ Terminated(Dec) => UNCHANGED <<pc, err, buf, depth, in_str, esc, yielded, pos>>
    /\ \/ yielded' = yielded
       \/ /\ Len(yielded') = Len(yielded) + 1
          /\ SubSeq(yielded', 1, Len(yielded)) = yielded
          /\ yielded # <<>> =>
                yielded'[Len(yielded')].from > yielded[Len(yielded)].to

C19_NoRepeat ==
    \A k \in 1..Len(yielded) :
        /\ yielded[k].from <= yielded[k].to
        /\ k > 1 => yielded[k - 1].to < yielded[k].from

\* C19: the decoder is a one-shot sequence: once it has terminated, by "]",
\* by end of input or by a fatal error, a later pull yields nothing and
\* leaves the decoder where it is, and the spans of the text that the
\* yielded values were taken from are disjoint and in input order, so that
\* no object of the input is yielded twice.
C19_OneShot == [][C19_Step]_vars /\ []C19_NoRepeat

C19_Witness ==
    /\ late_pulls = 2
    /\ pc = "error" /\ err = "eof_mid"
    /\ Len(yielded) = 1

\* position of the "{" that opened the object being accumulated
ObjStart == pos - Len(buf) + 1

\* end of the last object yielded before the one being accumulated
PrevEnd ==
    IF pc = "yielded"
    THEN (IF Len(yielded) > 1 THEN yielded[Len(yielded) - 1].to ELSE 0)
    ELSE (IF Len(yielded) > 0 THEN yielded[Len(yielded)].to ELSE 0)

ObjectOpen == pc \in {"in_obj", "yielded"} \/ (pc = "error" /\ err \in {"eof_mid", "json"})

MaxOf(S) == IF S = {} THEN 0 ELSE CHOOSE m \in S : \A x \in S : x <= m

LongestObject(s) ==
    LET sp == RefParse(s).spans
    IN MaxOf({sp[k][2] - sp[k][1] + 1 : k \in 1..Len(sp)})

C20_Buffer ==
    /\ ObjectOpen =>
          /\ buf # <<>>
          /\ buf = SubSeq(file, ObjStart, pos)
          /\ buf[1] = LC
          /\ ObjStart > PrevEnd
          /\ \A i \in (PrevEnd + 1)..(ObjStart - 1) : file[i] # LC
    /\ ~ObjectOpen => buf = <<>>
    /\ RefParse(file).status \in {"ok", "trunc_between"} =>
          Len(buf) <= LongestObject(file)

C20_Step ==
    (pc # "in_obj" /\ pc' = "in_obj") =>
        /\ buf' = <<LC>> /\ depth' = 1 /\ in_str' = FALSE /\ esc' = FALSE
        /\ file'[pos'] = LC

\* C20: while an object is being accumulated the buffer is exactly the text
\* from the "{" that opened it through the last character read, and it is
\* empty otherwise; every object starts from buffer "{", depth 1, not in a
\* string, no escape pending; the buffer holds no character of an earlier
\* object nor of the separators before its "{", and over a well-formed text
\* it is never longer than the longest object.
C20_BufferIsCurrentObject == [][C20_Step]_vars /\ []C20_Buffer

C20_Witness ==
    /\ pc = "in_obj"
    /\ Len(yielded) = 1
    /\ Len(buf) = 2
    /\ ObjStart > yielded[1].to + 1
    /\ in_str

\* ------------------------------------------------------------------------
\* Properties of the side-dataset pass of build_gravity_sources
\* ------------------------------------------------------------------------
\* the first available identifier of a record or row: numeric id, else
\* id64, else trimmed name
FirstIdent(i, i64, n) ==
    IF as_int(i) # <<>> THEN <<"num", as_int(i)[1]>>
    ELSE IF as_int(i64) # <<>> THEN <<"num", as_int(i64)[1]>>
    ELSE IF norm_name(n) # <<>> THEN <<"name", norm_name(n)>>
    ELSE <<"none", 0>>

\* the identifiers the interest CSV asks for
NeededIdents ==
    {FirstIdent(grav_csv[k].systemId, grav_csv[k].systemId64, grav_csv[k].systemName) :
        k \in 1..Len(grav_csv)} \ {<<"none", 0>>}

GoodCoords(c) == as_float(c.x) # <<>> /\ as_float(c.y) # <<>> /\ as_float(c.z) # <<>>

\* the record taken last is the one coords_by_system_id holds under its id
Retained(rec) ==
    /\ as_int(rec.id) # <<>>
    /\ as_int(rec.id)[1] \in DOMAIN coords_by_system_id
    /\ coords_by_system_id[as_int(rec.id)[1]].name = OrEmpty(rec.name)
    /\ coords_by_system_id[as_int(rec.id)[1]].x = as_float(rec.coords.x)[1]

\* C12 (as claimed): a record of the side dataset whose coordinates are
\* usable is retained if and only if its first available identifier
\* (numeric id, else id64, else name) is among the needed identifiers,
\* which may be integers or names; a record without numeric id whose name
\* is needed is retained.
C12_RetainedIffNeeded ==
    (grav_pc = "scan" /\ grav_processed # <<>> /\ GoodCoords(grav_sysrec.coords)) =>
        (Retained(grav_sysrec) <=>
            FirstIdent(grav_sysrec.id, grav_sysrec.id64, grav_sysrec.name) \in NeededIdents)

\* C18 (as claimed): at the end of the pass the reported counters account
\* for every decoded record: scanned is the number of records the loop body
\* processed, and scanned is the number kept plus the number rejected as
\* reported.
C18_CountersAccount ==
    grav_pc \in {"done", "break"} =>
        /\ grav_scanned = Len(grav_processed)
        /\ grav_scanned = grav_matched + RejectedReported

\* ------------------------------------------------------------------------
\* Properties of the keys of extract_primary_star_and_grav
\* ------------------------------------------------------------------------
\* the loop body ran for the record prim_rec' and got past the cap and the
\* test for a star
StarStep == prim_scanned' = prim_scanned + 1 /\ stars_seen' = stars_seen + 1

C13_Key ==
    LET k == system_key(prim_rec)
        i == as_int(prim_rec.systemId)
        i64 == as_int(prim_rec.systemId64)
        n == norm(prim_rec.systemName)
    IN /\ i # <<>> => k = <<"id", i[1]>>
       /\ (i = <<>> /\ i64 # <<>>) => k = <<"id64", i64[1]>>
       /\ (i = <<>> /\ i64 = <<>> /\ n # <<>>) => k = <<"name", n>>
       /\ (i = <<>> /\ i64 = <<>> /\ n = <<>>) => k = <<"none", <<>>>>

C13_Step ==
    StarStep =>
        IF system_key(prim_rec')[1] = "none"
        THEN UNCHANGED primary_by_system
        ELSE /\ system_key(prim_rec') \in DOMAIN primary_by_system'
             /\ DOMAIN primary_by_system' = DOMAIN primary_by_system \cup {system_key(prim_rec')}

\* C13: system_key gives ("id", systemId) whenever systemId coerces to an
\* integer, else ("id64", systemId64) whenever that coerces, else
\* ("name", trimmed systemName) when it is not empty, else ("none", ""); a
\* star is entered into primary_by_system under that key, and a record
\* whose key is "none" is never entered.
C13_KeyPriority ==
    /\ []C13_Key
    /\ [](\A k \in DOMAIN primary_by_system : k[1] \in {"id", "id64", "name"})
    /\ [][C13_Step]_vars

C13_Witness ==
    /\ prim_scanned = 2
    /\ prim_rec.systemId = StrVal(<<"x">>)
    /\ prim_rec.systemId64 = IntVal(<<"5">>)
    /\ prim_rec.systemName = StrVal(<<"a", SP>>)
    /\ DOMAIN primary_by_system = {<<"id64", 5>>, <<"name", <<"a">>>>}

\* the loop body dropped prim_rec' because it has none of the identifiers
DropStep == StarStep /\ system_key(prim_rec')[1] = "none"

C14_Step ==
    DropStep =>
        /\ prim_pc' = "scan"
        /\ UNCHANGED primary_by_system
        /\ \/ subtype_counts' # subtype_counts
           \/ Len(prim_interest') # Len(prim_interest)

\* C14 (as claimed): a star with none of the three identifiers is left out
\* of primary_by_system and the pass goes on, and the drop is counted: it
\* changes a counter of the pass other than scanned and stars_seen, which
\* count every record and every star.
C14_DropCounted == [][C14_Step]_vars

\* ------------------------------------------------------------------------
\* Properties of the normalizers
\* ------------------------------------------------------------------------
\* a coordinate is missing or is not a number
BadCoords(c) ==
    py_float(c.x).exc # "" \/ py_float(c.y).exc # "" \/ py_float(c.z).exc # ""

C17_Step ==
    ((total' # total \/ idx' # idx) /\ BadCoords(system'.coords)) =>
        /\ omph_pc' = "scan"
        /\ omph_err' = ""
        /\ omph_row' = <<>>
        /\ kept' = kept /\ total_kept' = total_kept

Between == pc \in {"seek_first", "yielded", "seek_next"}

C21_Step ==
    /\ (Between /\ pos' = pos + 1) =>
          LET c == file'[pos'] IN
          /\ c \notin {LC, RB} =>
                /\ pc' = (IF pc = "seek_first" THEN "seek_first" ELSE "seek_next")
                /\ err' = "" /\ yielded' = yielded
                /\ buf' = <<>> /\ in_str' = FALSE /\ esc' = FALSE
          /\ c = RB => pc' = "done" /\ err' = "" /\ yielded' = yielded
          /\ c = LC => pc' = "in_obj" /\ buf' = <<LC>> /\ yielded' = yielded
    /\ pc = "done" => pos' = pos

\* C21: between "[" and the first object and between two objects every
\* character other than "{" and "]" is dropped: no error, nothing kept, and
\* a quote there does not start a string; the first "]" met there ends the
\* sequence and nothing after it is read; the first "{" opens the next
\* object.
C21_SeparatorsDiscarded == [][C21_Step]_vars

C21_Witness ==
    /\ pc = "seek_next"
    /\ Len(yielded) = 1
    /\ file[pos] = QT
    /\ ~in_str /\ buf = <<>>

Live == pc \in {"start", "seek_first", "in_obj", "yielded", "seek_next"}

C22_Step ==
    /\ (cpc = "pull" /\ Live) =>
          \/ pos' = pos + 1 /\ pos' <= Len(file')
          \/ pos' = pos /\ pos = Len(file') /\ Terminated(Dec')
    /\ (cpc # "pull" \/ ~Live) => pos' = pos
    /\ Terminated(Dec) => Terminated(Dec')

C22_Bound ==
    /\ pos <= Len(file)
    /\ Live \/ Terminated(Dec)
    /\ pos < Len(file) => file[pos + 1] \in Alphabet

\* C22: every iteration of each of the decoder's loops consumes exactly one
\* character of the input, or reads end of input and then the decoder is in
\* a terminal state; a decoder that has not terminated always has a next
\* read; so over a text of n characters it terminates after at most n + 1
\* reads, and once terminated it stays so.
C22_Terminates == [][C22_Step]_vars /\ []C22_Bound

C22_Witness ==
    /\ pc = "error" /\ err = "eof_mid"
    /\ pos = Len(file) /\ Len(file) >= 5
    /\ ~open

\* "[" with neither "{" nor "]" after it
BracketThenNothing(s) ==
    /\ FirstTokenIsLB(s)
    /\ \A i \in (SkipWs(s, 1) + 1)..Len(s) : s[i] \notin {LC, RB}

\* C23: a text whose "[" is followed by end of input with neither "{" nor
\* "]" raises "Expected '{' after '['" once it has been read to its end,
\* before anything is yielded: it is not taken for an empty array and the
\* error is not the one for a text cut off inside an object.
C23_BracketThenEof ==
    /\ (LoopOver /\ BracketThenNothing(file)) =>
          /\ pc = "error" /\ err = "no_brace" /\ cpc = "abort"
          /\ pos = Len(file)
          /\ yielded = <<>> /\ processed = <<>> /\ buf = <<>>
    /\ err = "no_brace" => BracketThenNothing(file) /\ yielded = <<>>

C23_Witness ==
    /\ cpc = "abort" /\ err = "no_brace"
    /\ Len(file) = 3 /\ file[1] = LB /\ file[2] = CM /\ file[3] = QT

C24_Flags ==
    /\ pc = "in_obj" => depth >= 1 /\ (esc => in_str)
    /\ pc = "yielded" => depth = 0 /\ ~in_str /\ ~esc

C24_Step ==
    (pc = "in_obj" /\ pos' = pos + 1) =>
        LET c == file'[pos'] IN
        depth' - depth = (IF ~in_str /\ c = LC THEN 1
                          ELSE IF ~in_str /\ c = RC THEN 0 - 1
                          ELSE 0)

\* C24: while an object is accumulated an escape is pending only inside a
\* string and depth is at least 1, until the "}" that completes the object
\* brings it to 0; depth goes up by one on "{" and down by one on "}" read
\* outside a string and is left alone by every other character.
C24_FlagInvariants == []C24_Flags /\ [][C24_Step]_vars

C24_Witness ==
    /\ pc = "in_obj"
    /\ depth = 2 /\ in_str /\ esc
    /\ Len(yielded) = 0

\* ------------------------------------------------------------------------
\* Further properties of the join
\* ------------------------------------------------------------------------
NoIdRow(r) == IdKey(r) = <<>> /\ Id64Key(r) = <<>> /\ NameKey(r) = <<>>

Range(d) == {d[k] : k \in DOMAIN d}

\* C25: load_primary_maps enters each row under every identifier it
\* carries: each of its keys is a key of the matching table, held by that
\* row or by a later one; the row read last is the value of all its keys,
\* one and the same row in by_id, by_id64 and by_name; a row without any
\* identifier is in no table.
C25_EveryIdentifier ==
    \A i \in 1..Len(csv_rows) :
        LET r == csv_rows[i]
            last == i = Len(csv_rows)
            sid == IdKey(r)
            sid64 == Id64Key(r)
            nm == NameKey(r)
        IN /\ sid # <<>> =>
                 /\ sid[1] \in DOMAIN by_id
                 /\ by_id[sid[1]].line >= r.line
                 /\ last => by_id[sid[1]] = r
           /\ sid64 # <<>> =>
                 /\ sid64[1] \in DOMAIN by_id64
                 /\ by_id64[sid64[1]].line >= r.line
                 /\ last => by_id64[sid64[1]] = r
           /\ nm # <<>> =>
                 /\ nm[1] \in DOMAIN by_name
                 /\ by_name[nm[1]].line >= r.line
                 /\ last => by_name[nm[1]] = r
           /\ (sid = <<>> /\ sid64 = <<>> /\ nm = <<>>) =>
                 r \notin Range(by_id) \cup Range(by_id64) \cup Range(by_name)

C25_Witness ==
    /\ Len(csv_rows) = 2
    /\ NoIdRow(csv_rows[1])
    /\ by_id = (3 :> csv_rows[2])
    /\ by_id64 = (5 :> csv_rows[2])
    /\ by_name = (<<"b">> :> csv_rows[2])

C27_Counts ==
    /\ matched = via_id + via_id64 + via_name
    /\ only_matched => written = matched
    /\ ~only_matched => written = probes
    /\ written = 0 => row_out = NoRowOut

C27_Step ==
    probes' = probes + 1 =>
        IF prow' = <<>>
        THEN IF only_matched
             THEN written' = written /\ row_out' = row_out
             ELSE /\ written' = written + 1
                  /\ row_out'.name = sysrec'.name
                  /\ row_out'.primary_type = <<>>
                  /\ row_out'.primary_subType = <<>>
                  /\ row_out'.primary_star_name = <<>>
        ELSE /\ written' = written + 1
             /\ row_out'.name = sysrec'.name
             /\ row_out'.primary_star_name = Strip(prow'[1].primaryStarName.s)

\* C27: after every record of the pass matched = via_id + via_id64 +
\* via_name; with --only_matched written = matched and an unmatched record
\* is not written; without it written is the number of records decoded and
\* an unmatched record is written with empty primary-star fields.
C27_CountersAgree == []C27_Counts /\ [][C27_Step]_vars

C27_Witness ==
    /\ ~only_matched
    /\ probes = 2 /\ matched = 1 /\ written = 2
    /\ prow = <<>>
    /\ row_out.name = sysrec.name
    /\ row_out.primary_star_name = <<>> /\ row_out.primary_type = <<>>

\* ------------------------------------------------------------------------
\* The choice of the primary star
\* ------------------------------------------------------------------------
IsMainRec(r) == r.isMainStar = BoolVal(TRUE)

\* the distance of a record in tenths; missing or unparseable is largest
DistOf(r) ==
    LET v == r.distanceToArrival
    IN IF v.t = "none" \/ ~IsFloatText(Strip(v.s)) THEN NoDistance
       ELSE FloatTenths(Strip(v.s))

\* the index of the record the claim says is retained
PrimaryIndex(seq) ==
    LET any_main == \E i \in 1..Len(seq) : IsMainRec(seq[i])
        S == {i \in 1..Len(seq) : IsMainRec(seq[i]) = any_main}
        nearest == {i \in S : \A j \in S : DistOf(seq[i]) <= DistOf(seq[j])}
    IN CHOOSE i \in nearest : \A j \in nearest : i <= j

C26_Retained ==
    fold_seen # <<>> =>
        /\ fold_best # <<>>
        /\ fold_best[1].rec = fold_seen[PrimaryIndex(fold_seen)]
        /\ fold_best[1]._is_main = (\E i \in 1..Len(fold_seen) : IsMainRec(fold_seen[i]))

C26_Step ==
    (fold_best # <<>> /\ fold_best[1]._is_main /\ fold_best' # fold_best) =>
        /\ IsMainRec(fold_best'[1].rec)
        /\ DistOf(fold_best'[1].rec) < DistOf(fold_best[1].rec)

\* C26: folding choose_primary over the star records of one system key
\* retains a record with isMainStar true if there is one, and among the
\* records with that main flag the one of smallest distanceToArrival, a
\* missing or unparseable distance counting as largest; of records that
\* tie the earliest is kept, and a main record is replaced only by a
\* nearer main record.
C26_PrimaryChoice == []C26_Retained /\ [][C26_Step]_vars

C26_Witness ==
    /\ Len(fold_seen) = 3
    /\ ~IsMainRec(fold_seen[1]) /\ DistOf(fold_seen[1]) = 0
    /\ IsMainRec(fold_seen[2]) /\ fold_seen[2].distanceToArrival = IntVal(<<"5">>)
    /\ IsMainRec(fold_seen[3]) /\ fold_seen[3].distanceToArrival = StrVal(<<"5", ".", "0">>)
    /\ fold_best[1].rec = fold_seen[2]

\* ------------------------------------------------------------------------
\* The jumps of a journal
\* ------------------------------------------------------------------------
HasSystem(e) == e.StarSystem # <<>> /\ e.StarSystem # <<"">>

SetsPosition(e) == e.event = "FSDJump" \/ (e.event = "Location" /\ HasSystem(e))

\* the origin of an FSDJump at index i of a file's events
OriginAt(evts, i) ==
    LET P == {j \in 1..(i - 1) : SetsPosition(evts[j])}
    IN IF P = {} THEN "(unknown)"
       ELSE LET j == CHOOSE m \in P : \A n \in P : n <= m
            IN IF HasSystem(evts[j]) THEN evts[j].StarSystem[1] ELSE "(unknown)"

\* the indices of the FSDJump events, ascending
RECURSIVE JumpIndices(_, _)
JumpIndices(evts, i) ==
    IF i > Len(evts) THEN <<>>
    ELSE IF evts[i].event = "FSDJump" THEN <<i>> \o JumpIndices(evts, i + 1)
    ELSE JumpIndices(evts, i + 1)

C28_Tuples ==
    LET at == JumpIndices(journal_events, 1)
    IN /\ Len(jumps) = Len(at)
       /\ \A k \in 1..Len(at) :
             /\ jumps[k].evt = journal_events[at[k]]
             /\ jumps[k].dest = journal_events[at[k]].StarSystem
             /\ jumps[k].origin = OriginAt(journal_events, at[k])
       /\ (jr_pc = "read" /\ journal_events = <<>>) => last_system = <<>>

C28_Step ==
    /\ (Len(journal_events') = Len(journal_events) + 1
          /\ journal_events'[Len(journal_events')].event = "Location"
          /\ ~HasSystem(journal_events'[Len(journal_events')]))
       => last_system' = last_system
    /\ journal_no' # journal_no => last_system' = <<>> /\ jumps' = <<>>

\* C28: _iter_jumps_from_journal yields one tuple per FSDJump event of the
\* file, in file order; the origin is the StarSystem of the latest earlier
\* event of that file that set the position (an FSDJump, by its
\* destination, or a Location carrying a StarSystem) and "(unknown)" when
\* there is none or it names no system; a Location without StarSystem
\* leaves the tracked system as it was, and every file starts with
\* nothing tracked.
C28_JumpOrigins == []C28_Tuples /\ [][C28_Step]_vars

C28_Witness ==
    /\ journal_no = 2 /\ appended = 2 /\ Len(journal_events) = 3
    /\ journal_events[1] = JournalEvent("Location", <<"A">>, <<1>>)
    /\ journal_events[2] = JournalEvent("Location", <<>>, <<>>)
    /\ journal_events[3].event = "FSDJump"
    /\ Len(jumps) = 1 /\ jumps[1].origin = "A"

\* ------------------------------------------------------------------------
\* Filling in missing coordinates
\* ------------------------------------------------------------------------
RowHasCoords(r) == Strip(r.x) # <<>> /\ Strip(r.y) # <<>> /\ Strip(r.z) # <<>>

Running(run) == hv_pc[run] \in {"loop", "write"}

C29_State ==
    \A run \in Runs :
        /\ \A k \in hv_looked_up[run] \cup hv_set[run] :
              hv_pc[run] = "loop" => ~RowHasCoords(systems_csv[k])
        /\ hv_pc[run] = "write" => ~hv_dry_run[run] /\ hv_updated[run] > 0
        /\ (hv_dry_run[run] /\ hv_pc[run] = "done") =>
              /\ hv_result[run] =
                    <<Cardinality({k \in 1..Len(systems_csv) :
                          hv_systems[run][k] # LoadSystem(systems_csv[k])})>>
              /\ hv_result[run] = <<Cardinality(hv_set[run])>>
              /\ hv_set[run] \subseteq hv_looked_up[run]

C29_Step ==
    \A run \in Runs :
        /\ (hv_pc[run] = "loop" /\ hv_i'[run] = hv_i[run] + 1
              /\ has_coords(hv_systems[run][hv_i[run]]))
           => /\ hv_systems'[run] = hv_systems[run]
              /\ hv_looked_up'[run] = hv_looked_up[run]
              /\ hv_updated'[run] = hv_updated[run]
        /\ systems_csv' # systems_csv =>
              \E w \in Runs : ~hv_dry_run[w] /\ hv_updated[w] > 0
        /\ (\A w \in Runs : hv_dry_run[w]) => systems_csv' = systems_csv

\* C29: fill_missing_coords_from_edsm neither asks EDSM about nor changes
\* a system that has x, y and z; the file is rewritten only by a run with
\* dry_run false that updated at least one system; with dry_run true the
\* file stays as it was and the count returned is the number of systems
\* the run gave coordinates to.
C29_FillMissing == []C29_State /\ [][C29_Step]_vars

C29_Witness ==
    /\ hv_pc["post"] = "done" /\ hv_dry_run["post"]
    /\ Len(systems_csv) = 2
    /\ RowHasCoords(systems_csv[1]) /\ ~RowHasCoords(systems_csv[2])
    /\ hv_looked_up["post"] = {2} /\ hv_result["post"] = <<1>>
    /\ systems_csv[2].x = <<>>

\* C30 (as claimed): when runs of fill_missing_coords_from_edsm overlap,
\* every system a run set coordinates for has its coordinates in the file
\* once the runs have returned.
C30_NoLostUpdate ==
    (\A run \in Runs : hv_pc[run] = "done") =>
        \A run \in Runs : \A k \in hv_set[run] :
            k <= Len(systems_csv) /\ RowHasCoords(systems_csv[k])

====
